---- MODULE Spec2Model ----
(***************************************************************************)
(* Falling-sand simulation worker (src/simWorker.js) with its material     *)
(* tables (src/unnamed/part_001).  The worker's state is the cell grid,    *)
(* the chunk scheduler arrays, the coarse air fields, the LCG seed, the    *)
(* paint queue, the pause flag and the tick counter.  step() is modelled   *)
(* as the sequence of its passes, one action per pass, strung together by  *)
(* the position variable pc; no message handler runs inside a step().      *)
(***************************************************************************)
EXTENDS Integers, Naturals, Sequences, FiniteSets, TLC

(* ---------------------------------------------------------------- bounds *)
SimW == 65         \* grid width sent by the init message
SimH == 3          \* grid height sent by the init message
MaxTick == 76      \* ticks explored
MaxStrokes == 2    \* stroke messages explored
MaxPauses == 2     \* togglePause messages explored
MaxClears == 1     \* clear messages explored

(* ------------------------------------------------------ program constants *)
CHUNK == 32
AIR_SCALE == 4
MAX_QUEUE == 300
SLEEP_LIMIT == 70
P_MAX == 30000
V_MAX == 24000
WIND_THRESHOLD_LOW == 2500
WIND_THRESHOLD_MED == 6000
WIND_THRESHOLD_HIGH == 12000
WIND_THRESHOLD_STORM == 20000

W == SimW
H == SimH
N == W * H
cW == (W + CHUNK - 1) \div CHUNK
cH == (H + CHUNK - 1) \div CHUNK
cN == cW * cH
aW == (W + AIR_SCALE - 1) \div AIR_SCALE
aH == (H + AIR_SCALE - 1) \div AIR_SCALE
aN == aW * aH

(* ------------------------------------------------------------ material ids *)
AIR == 0
STONE == 1
SAND == 2
WATER == 3
DIRT == 4
MUD == 5
SEED == 6
SPROUT == 7
PLANT == 8
WOOD == 9
FIRE == 10
SMOKE == 11
STEAM == 12
ICE == 13
OIL == 14
LAVA == 15
ASH == 16
SPARK == 17
GRAVEL == 18
CLOUD == 19
METAL == 20
LIGHTNING == 21
ACID == 22
SOAP == 23
GAS == 24
NITRO == 25
FIREWORK == 26
VINE == 27
ANT == 28
RUST == 29
FOAM == 30
LASER == 31
CLONE == 32

Materials == 0..32

DENSITY(t) ==
  CASE t \in {AIR, FIRE, SPARK, LIGHTNING, LASER} -> 0
    [] t \in {SMOKE, STEAM, CLOUD, GAS} -> 1
    [] t \in {FOAM, OIL} -> 2
    [] t \in {WATER, ACID, SOAP} -> 3
    [] t \in {ICE, ASH, ANT, NITRO, FIREWORK, MUD} -> 4
    [] t \in {SAND, DIRT, SEED, SPROUT, PLANT, VINE, CLONE} -> 5
    [] t = RUST -> 6
    [] t \in {WOOD, GRAVEL} -> 7
    [] t = LAVA -> 8
    [] t \in {METAL, STONE} -> 9
    [] OTHER -> 0

IS_SOLID(t) == t \in {STONE, WOOD, ICE, METAL}
IS_POWDER(t) == t \in {SAND, DIRT, SEED, ASH, GRAVEL, RUST, ANT, NITRO, FIREWORK}
IS_FLUID(t) == t \in {WATER, OIL, LAVA, MUD, ACID, SOAP}
IS_GAS(t) == t \in {SMOKE, STEAM, FIRE, SPARK, CLOUD, GAS, FOAM, LIGHTNING, LASER}
IS_BURNABLE(t) == t \in {WOOD, PLANT, SPROUT, OIL, SEED, VINE, GAS, NITRO, FIREWORK}

\* WIND_COUPLING in thousandths
WIND_COUPLING(t) ==
  CASE t \in {SMOKE, STEAM, ASH, GAS} -> 1000
    [] t = SPARK -> 950
    [] t = FOAM -> 900
    [] t = FIRE -> 850
    [] t = CLOUD -> 750
    [] t = SEED -> 700
    [] t \in {ANT, FIREWORK} -> 650
    [] t = SOAP -> 380
    [] t = WATER -> 350
    [] t = ACID -> 320
    [] t = OIL -> 300
    [] t = SPROUT -> 220
    [] t \in {NITRO, VINE} -> 180
    [] t = SAND -> 150
    [] t = PLANT -> 120
    [] t \in {MUD, DIRT} -> 100
    [] t = RUST -> 60
    [] t = GRAVEL -> 30
    [] t = LAVA -> 10
    [] OTHER -> 0

(* ------------------------------------------------------- integer helpers *)
\* sequencing of statements: x is computed first, then F is applied to it
Then(x, F(_)) == CHOOSE r \in { F(y) : y \in {x} } : TRUE

Min(a, b) == IF a < b THEN a ELSE b
Max(a, b) == IF a > b THEN a ELSE b
Abs(a) == IF a < 0 THEN -a ELSE a
\* JavaScript (q)|0 for a quotient a/b, b > 0: truncation toward zero
TDiv(a, b) == IF a >= 0 THEN a \div b ELSE -((-a) \div b)
clamp(v, lo, hi) == IF v < lo THEN lo ELSE (IF v > hi THEN hi ELSE v)
\* stores into Uint8Array / Uint16Array / Int16Array keep the low bits
U8(v) == v % 256
U16(v) == v % 65536
I16(v) == ((v + 32768) % 65536) - 32768

idx(x, y) == x + y * W
inb(x, y) == x >= 0 /\ y >= 0 /\ x < W /\ y < H
cidx(cx, cy) == cx + cy * cW
cellToChunkX(x) == TDiv(x, CHUNK)
cellToChunkY(y) == TDiv(y, CHUNK)
aidx(ax, ay) == ax + ay * aW
toAirX(x) == clamp(TDiv(x, AIR_SCALE), 0, aW - 1)
toAirY(y) == clamp(TDiv(y, AIR_SCALE), 0, aH - 1)

(* ------------------------------------------------------------------ rnd *)
\* seed is a 32-bit word kept as two 16-bit limbs <<hi, lo>>
SEED0 == <<1883, 52501>>      \* 123456789

rndNext(s) ==
  LET t0 == s[2] * 26125 + 62303
      lo == t0 % 65536
      hi == (s[1] * 26125 + s[2] * 25 + 15470 + (t0 \div 65536)) % 65536
  IN <<hi, lo>>

\* (seed >>> 0) / 2^32 < n/d for 0 <= n <= d < 2^23: the bytes of the seed
\* against the base-256 digits of n/d
rndLess(s, n, d) ==
  LET b3 == s[1] \div 256
      b2 == s[1] % 256
      b1 == s[2] \div 256
      b0 == s[2] % 256
      d1 == (n * 256) \div d
      r1 == (n * 256) % d
      d2 == (r1 * 256) \div d
      r2 == (r1 * 256) % d
      d3 == (r2 * 256) \div d
      r3 == (r2 * 256) % d
      d4 == (r3 * 256) \div d
      r4 == (r3 * 256) % d
  IN \/ b3 < d1
     \/ b3 = d1 /\ b2 < d2
     \/ b3 = d1 /\ b2 = d2 /\ b1 < d3
     \/ b3 = d1 /\ b2 = d2 /\ b1 = d3 /\ b0 < d4
     \/ b3 = d1 /\ b2 = d2 /\ b1 = d3 /\ b0 = d4 /\ r4 > 0

\* ((seed >>> 0) / 2^32 * n) | 0, for 0 <= n < 32768
irandOf(s, n) == (s[1] * n + ((s[2] * n) \div 65536)) \div 65536

(* ---------------------------------------------------------------- world *)
\* The operators below act on a record w holding the worker's arrays:
\*   typeA, dataA                       cell grid (material id, aux byte)
\*   cActive, cDirty, cChanged, cSleep  chunk scheduler
\*   pField, vxField, vyField           coarse air fields
\*   seed                               LCG state
\*   tick                               tick counter (read by the rules)
\*   turb, windDamp                     state.turb, state.windDamp
\*   marked                             chunks markChunk was called on (history)
\*   calls                              step-function invocations (history)
\*   whole                              FALSE once a rule outside the modelled
\*                                      fragment would have to run

Cells == 0..(N - 1)
Chunks == 0..(cN - 1)
AirCells == 0..(aN - 1)

isEmptyCell(t) == t \in {AIR, SMOKE, STEAM, SPARK, CLOUD, GAS, FOAM, LIGHTNING, LASER}

rnd(w) == [w EXCEPT !.seed = rndNext(w.seed)]

markUnchecked(w, cw, ch, cx, cy) ==
  [w EXCEPT !.cActive[cx + cy * cw] = 1, !.cDirty[cx + cy * cw] = 1,
            !.cChanged[cx + cy * cw] = 1, !.cSleep[cx + cy * cw] = 0,
            !.marked = @ \cup {cx + cy * cw}]

\* markChunk over a chunk grid of cw by ch chunks (the globals cW, cH)
markChunkIn(w, cw, ch, cx, cy) ==
  IF cx < 0 \/ cy < 0 \/ cx >= cw \/ cy >= ch THEN w
  ELSE [w EXCEPT !.cActive[cx + cy * cw] = 1, !.cDirty[cx + cy * cw] = 1,
                 !.cChanged[cx + cy * cw] = 1, !.cSleep[cx + cy * cw] = 0,
                 !.marked = @ \cup {cx + cy * cw}]

markChunk(w, cx, cy) == markChunkIn(w, cW, cH, cx, cy)

markCellDirty(w, x, y) == markChunk(w, cellToChunkX(x), cellToChunkY(y))

\* the inner loop of markCellAndNeighbors (dx = -1, 0, 1) for one dy
markRowIn(w, cw, ch, cx, cy) ==
  markChunkIn(markChunkIn(markChunkIn(w, cw, ch, cx - 1, cy), cw, ch, cx, cy), cw, ch, cx + 1, cy)

markCellAndNeighborsIn(w, cw, ch, x, y) ==
  markRowIn(markRowIn(markRowIn(w, cw, ch, cellToChunkX(x), cellToChunkY(y) - 1),
                      cw, ch, cellToChunkX(x), cellToChunkY(y)),
            cw, ch, cellToChunkX(x), cellToChunkY(y) + 1)

markCellAndNeighbors(w, x, y) == markCellAndNeighborsIn(w, cW, cH, x, y)

\* a move that copies the cell instead of exchanging the two
copyAt(w, x1, y1, x2, y2) ==
  markCellAndNeighbors(markCellAndNeighbors(
    [w EXCEPT !.typeA[idx(x2, y2)] = w.typeA[idx(x1, y1)],
              !.dataA[idx(x2, y2)] = w.dataA[idx(x1, y1)]], x1, y1), x2, y2)

swapAt(w, x1, y1, x2, y2) ==
  LET i1 == idx(x1, y1)
      i2 == idx(x2, y2)
      w1 == [w EXCEPT !.typeA[i1] = w.typeA[i2], !.typeA[i2] = w.typeA[i1],
                      !.dataA[i1] = w.dataA[i2], !.dataA[i2] = w.dataA[i1]]
  IN markCellAndNeighbors(markCellAndNeighbors(w1, x1, y1), x2, y2)

setCell(w, x, y, t, d) ==
  LET i == idx(x, y)
  IN markCellAndNeighbors([w EXCEPT !.typeA[i] = U8(t), !.dataA[i] = U8(d)], x, y)

\* a decision by density and rigidity alone
densityOnly(a, b) == ~IS_SOLID(b) /\ DENSITY(b) < DENSITY(a)

\* the decision of trySwapIfHeavier for source material a and target b
swapAllowed(a, b) ==
  IF b = AIR \/ b = SMOKE \/ b = STEAM THEN TRUE
  ELSE IF IS_SOLID(b) THEN FALSE
  ELSE DENSITY(b) < DENSITY(a)

\* returns the world and the boolean result
trySwapIfHeavier(w, x, y, nx, ny) ==
  IF ~inb(nx, ny) THEN [w |-> w, r |-> FALSE]
  ELSE LET a == w.typeA[idx(x, y)]
           b == w.typeA[idx(nx, ny)]
       IN IF swapAllowed(a, b)
          THEN [w |-> swapAt(w, x, y, nx, ny), r |-> TRUE]
          ELSE [w |-> w, r |-> FALSE]

Neighbors4(x, y) ==
  (IF x > 0 THEN <<(<<x - 1, y>>)>> ELSE <<>>) \o
  (IF x < W - 1 THEN <<(<<x + 1, y>>)>> ELSE <<>>) \o
  (IF y > 0 THEN <<(<<x, y - 1>>)>> ELSE <<>>) \o
  (IF y < H - 1 THEN <<(<<x, y + 1>>)>> ELSE <<>>)

hasNeighborOfType(w, x, y, tNeed) ==
  \E k \in DOMAIN Neighbors4(x, y) :
     w.typeA[idx(Neighbors4(x, y)[k][1], Neighbors4(x, y)[k][2])] = tNeed

bestNeighborMoisture(w, x, y) ==
  LET nb == Neighbors4(x, y)
      ms == {0} \cup { w.dataA[idx(nb[k][1], nb[k][2])] :
                        k \in { j \in DOMAIN nb : w.typeA[idx(nb[j][1], nb[j][2])] = DIRT } }
  IN CHOOSE m \in ms : \A o \in ms : o <= m

\* ambVX and globalVX hold the truncated values (ambVX|0), (globalVX|0); both
\* are zero until tick 256 and while no state message sets globalWindStrength
sampleAirVX(w, x, y) == w.vxField[aidx(toAirX(x), toAirY(y))] + w.ambVX + w.globalVX
sampleAirVY(w, x, y) == w.vyField[aidx(toAirX(x), toAirY(y))] + w.ambVY + w.globalVY
sampleAirP(w, x, y) == w.pField[aidx(toAirX(x), toAirY(y))]

\* vx, vy, mag in thousandths (raw * coupling), rawMag as is
getEffectiveWind(w, x, y, t) ==
  LET c == WIND_COUPLING(t)
      rawVX == sampleAirVX(w, x, y)
      rawVY == sampleAirVY(w, x, y)
  IN IF c = 0 THEN [vx |-> 0, vy |-> 0, mag |-> 0, rawMag |-> 0]
     ELSE [vx |-> rawVX * c, vy |-> rawVY * c,
           mag |-> (Abs(rawVX) + Abs(rawVY)) * c,
           rawMag |-> Abs(rawVX) + Abs(rawVY)]

(* ----------------------------------------------------------- powderStep *)
NoSwap(w) == [w |-> w, r |-> FALSE]
partial(w) == [w EXCEPT !.whole = FALSE]

\* if (belowY < H && trySwapIfHeavier(x,y,x,belowY)) return;
fallDown(w, x, y) ==
  IF y + 1 < H THEN trySwapIfHeavier(w, x, y, x, y + 1) ELSE NoSwap(w)

\* a powder that never slides sideways
noDiag(w, x, y, bias) == w

\* the two diagonal attempts that end every powder branch
fallDiag(w, x, y, bias) ==
  IF y + 1 < H
  THEN LET r1 == trySwapIfHeavier(w, x, y, x + bias, y + 1)
       IN IF r1.r THEN r1.w ELSE trySwapIfHeavier(w, x, y, x - bias, y + 1).w
  ELSE w

fallAll(w, x, y, bias) ==
  LET r0 == fallDown(w, x, y)
  IN IF r0.r THEN r0.w ELSE fallDiag(w, x, y, bias)

\* swapAt into an empty in-grid cell; r tells whether it happened
hopTo(w, x, y, tx, ty) ==
  IF inb(tx, ty) /\ isEmptyCell(w.typeA[idx(tx, ty)])
  THEN [w |-> swapAt(w, x, y, tx, ty), r |-> TRUE]
  ELSE NoSwap(w)

exposedToWind(w, x, y) ==
  \/ (y > 0 /\ isEmptyCell(w.typeA[idx(x, y - 1)]))
  \/ (x > 0 /\ isEmptyCell(w.typeA[idx(x - 1, y)]))
  \/ (x < W - 1 /\ isEmptyCell(w.typeA[idx(x + 1, y)]))

\* wet sand: returns the world and whether powderStep returned
sandWetness(w, x, y) ==
  LET i == idx(x, y)
      wetness == w.dataA[i]
  IN IF hasNeighborOfType(w, x, y, WATER)
     THEN LET wet1 == Min(255, wetness + 3)
              w1 == [w EXCEPT !.dataA[i] = wet1]
              w2 == rnd(w1)
          IN IF wet1 > 200
             THEN IF rndLess(w2.seed, 8, 1000)
                  THEN [w |-> setCell(w2, x, y, MUD, 150), r |-> TRUE]
                  ELSE [w |-> w2, r |-> FALSE]
             ELSE [w |-> w1, r |-> FALSE]
     ELSE IF wetness > 0 /\ (w.tick % 8) = 0
          THEN [w |-> [w EXCEPT !.dataA[i] = Max(0, wetness - 1)], r |-> FALSE]
          ELSE NoSwap(w)

rustCrumble(w, x, y) ==
  LET w1 == rnd(w)
  IN IF rndLess(w1.seed, 5, 1000)
     THEN [w |-> markCellAndNeighbors(
                   [w1 EXCEPT !.typeA[idx(x, y)] = ASH, !.dataA[idx(x, y)] = 0], x, y),
           r |-> TRUE]
     ELSE [w |-> w1, r |-> FALSE]

\* saltation hop: first free target, h from hopHeight down, f from hopForward down
hopTarget(w, x, y, windDir, hopHeight, hopForward) ==
  LET ok == { hf \in (1..hopHeight) \X (1..hopForward) :
                 inb(x + windDir * hf[2], y - hf[1])
                 /\ isEmptyCell(w.typeA[idx(x + windDir * hf[2], y - hf[1])]) }
  IN IF ok = {} THEN <<>>
     ELSE LET best == CHOOSE hf \in ok : \A o \in ok : o[1] * 4 + o[2] <= hf[1] * 4 + hf[2]
          IN <<x + windDir * best[2], y - best[1]>>

sandHighWind(w, x, y, wmag, windDir) ==
  LET isOnSurface == (y + 1 >= H) \/ ~isEmptyCell(w.typeA[idx(x, y + 1)])
      storm == wmag > WIND_THRESHOLD_STORM * 1000
      w1 == IF isOnSurface THEN rnd(w) ELSE w
      hop == isOnSurface /\
             (IF wmag < WIND_THRESHOLD_STORM * 1000
              THEN rndLess(w1.seed, 18, 100) ELSE rndLess(w1.seed, 35, 100))
      w2 == IF hop /\ storm THEN rnd(w1) ELSE w1
      hopHeight == IF hop /\ storm THEN 1 + irandOf(w2.seed, 2) ELSE 1
      w3 == IF hop /\ storm THEN rnd(w2) ELSE w2
      hopForward == IF hop /\ storm THEN 1 + irandOf(w3.seed, 2) ELSE 1
      tgt == IF hop THEN hopTarget(w3, x, y, windDir, hopHeight, hopForward) ELSE <<>>
  IN IF hop /\ tgt # <<>>
     THEN LET ws == swapAt(w3, x, y, tgt[1], tgt[2])
              ai == aidx(toAirX(tgt[1]), toAirY(tgt[2]))
          IN [ws EXCEPT !.vxField[ai] = I16(clamp(@ + windDir * 200, -P_MAX, P_MAX))]
     ELSE LET sl == IF hop THEN hopTo(w3, x, y, x + windDir, y) ELSE NoSwap(w3)
          IN IF sl.r THEN sl.w
             ELSE LET w4 == IF ~isOnSurface THEN rnd(w3) ELSE w3
                      push == IF ~isOnSurface /\ rndLess(w4.seed, 1, 2)
                              THEN hopTo(w4, x, y, x + windDir, y) ELSE NoSwap(w4)
                  IN IF push.r THEN push.w ELSE fallAll(w4, x, y, windDir)

sandStep(w, x, y, wmag, windDir) ==
  IF wmag < WIND_THRESHOLD_LOW * 1000 \/ ~exposedToWind(w, x, y)
  THEN LET w1 == rnd(w)
           bias == IF rndLess(w1.seed, 1, 2) THEN -1 ELSE 1
       IN fallAll(w1, x, y, bias)
  ELSE IF wmag < WIND_THRESHOLD_HIGH * 1000
  THEN LET r0 == fallDown(w, x, y)
       IN IF r0.r THEN r0.w
          ELSE LET w1 == rnd(w)
                   biasedDir == IF rndLess(w1.seed, 70, 100) THEN windDir ELSE -windDir
               IN fallDiag(w1, x, y, biasedDir)
  ELSE sandHighWind(w, x, y, wmag, windDir)

gravelStep(w, x, y, wmag, windDir) ==
  LET r0 == fallDown(w, x, y)
  IN IF r0.r THEN r0.w
     ELSE LET gust == wmag > WIND_THRESHOLD_STORM * 1000 /\ exposedToWind(w, x, y)
              w1 == IF gust THEN rnd(w) ELSE w
              h1 == IF gust /\ rndLess(w1.seed, 12, 100)
                    THEN hopTo(w1, x, y, x + windDir, y - 1) ELSE NoSwap(w1)
              h2 == IF gust /\ rndLess(w1.seed, 12, 100) /\ ~h1.r
                    THEN hopTo(w1, x, y, x + windDir, y) ELSE h1
          IN IF h2.r THEN h2.w
             ELSE LET calm == ~(wmag > WIND_THRESHOLD_MED * 1000)
                      w2 == IF calm THEN rnd(w1) ELSE w1
                      bias == IF calm THEN (IF rndLess(w2.seed, 1, 2) THEN -1 ELSE 1)
                              ELSE windDir
                  IN fallDiag(w2, x, y, bias)

lightStep(w, x, y, wmag, vy, windDir) ==
  LET windy == wmag > WIND_THRESHOLD_LOW * 1000 /\ exposedToWind(w, x, y)
      lift == windy /\ vy < -2000000
      w1 == IF lift THEN rnd(w) ELSE w
      r1 == IF lift /\ rndLess(w1.seed, 40, 100)
            THEN hopTo(w1, x, y, x + windDir, y - 1) ELSE NoSwap(w1)
  IN IF r1.r THEN r1.w
     ELSE LET w2 == IF windy THEN rnd(w1) ELSE w1
              r2 == IF windy /\ rndLess(w2.seed, 50, 100)
                    THEN hopTo(w2, x, y, x + windDir, y) ELSE NoSwap(w2)
          IN IF r2.r THEN r2.w
             ELSE LET r3 == fallDown(w2, x, y)
                  IN IF r3.r THEN r3.w
                     ELSE LET calm == ~(wmag > 800000)
                              w3 == IF calm THEN rnd(w2) ELSE w2
                              bias == IF calm THEN (IF rndLess(w3.seed, 1, 2) THEN -1 ELSE 1)
                                      ELSE windDir
                          IN fallDiag(w3, x, y, bias)

defaultPowder(w, x, y, wmag, windDir) ==
  LET r0 == fallDown(w, x, y)
  IN IF r0.r THEN r0.w
     ELSE LET calm == ~(wmag > WIND_THRESHOLD_LOW * 1000)
              w1 == IF calm THEN rnd(w) ELSE w
              bias == IF calm THEN (IF rndLess(w1.seed, 1, 2) THEN -1 ELSE 1) ELSE windDir
          IN fallDiag(w1, x, y, bias)

\* fireworkExplode: the firework becomes SMOKE.  The spark ring is placed with
\* Math.cos / Math.sin and is not followed, nor are the draws it makes, so the
\* state is flagged and the smoke is given the least aux it can get
(* -------------------------------------------------------------- antStep *)
\* moves[dir]: 0 = left, 1 = right, 2 = up, 3 = down
antMoves == << <<-1, 0>>, <<1, 0>>, <<0, -1>>, <<0, 1>> >>

\* "(dir + 2) % 4", the direction stored when the ant is stuck
antReverse(dir) == (dir + 2) % 4

\* the direction opposite to dir
antOpposite(dir) == IF dir % 2 = 0 THEN dir + 1 ELSE dir - 1

\* random change of direction
antTurn(w, x, y) ==
  Then(rnd(w), LAMBDA w1 :
    IF ~rndLess(w1.seed, 5, 100) THEN w1
    ELSE Then(rnd(w1), LAMBDA w2 :
           [w2 EXCEPT !.dataA[idx(x, y)] = (@ \div 4) * 4 + irandOf(w2.seed, 4)]))

\* the callback of the collect loop at neighbour (sx, sy); c holds the world
\* and the local foundSeed
antCollect(c, x, y, sx, sy) ==
  IF c.found \/ c.w.typeA[idx(sx, sy)] # SEED THEN c
  ELSE Then(rnd(c.w), LAMBDA w1 :
         IF ~rndLess(w1.seed, 2, 10) THEN [c EXCEPT !.w = w1]
         ELSE [w |-> markCellAndNeighbors(
                       [w1 EXCEPT !.dataA[idx(x, y)] = (@ % 4) + 4,
                                  !.typeA[idx(sx, sy)] = AIR, !.dataA[idx(sx, sy)] = 0], sx, sy),
               found |-> TRUE])

RECURSIVE antCollectAll(_, _, _, _, _)
antCollectAll(c, x, y, nb, k) ==
  IF k > Len(nb) THEN c.w
  ELSE Then(antCollect(c, x, y, nb[k][1], nb[k][2]),
            LAMBDA c1 : antCollectAll(c1, x, y, nb, k + 1))

\* the drop loop: its return leaves the callback, not the loop
RECURSIVE antDropAll(_, _, _, _, _)
antDropAll(w, x, y, nb, k) ==
  IF k > Len(nb) THEN w
  ELSE IF w.typeA[idx(nb[k][1], nb[k][2])] # AIR THEN antDropAll(w, x, y, nb, k + 1)
  ELSE antDropAll(markCellAndNeighbors(
                    [w EXCEPT !.typeA[idx(nb[k][1], nb[k][2])] = SEED,
                              !.dataA[idx(nb[k][1], nb[k][2])] = 0,
                              !.dataA[idx(x, y)] = @ % 4], nb[k][1], nb[k][2]),
                  x, y, nb, k + 1)

antDrop(w, x, y) ==
  IF (w.dataA[idx(x, y)] \div 4) % 2 = 0 THEN w
  ELSE Then(rnd(w), LAMBDA w1 :
         IF rndLess(w1.seed, 1, 100) THEN antDropAll(w1, x, y, Neighbors4(x, y), 1) ELSE w1)

antMound(w, x, y) ==
  Then(rnd(w), LAMBDA w1 :
    IF /\ rndLess(w1.seed, 3, 1000) /\ y > 0
       /\ inb(x, y + 1) /\ w1.typeA[idx(x, y + 1)] = DIRT
       /\ w1.typeA[idx(x, y - 1)] = AIR
    THEN markCellAndNeighbors(
           [w1 EXCEPT !.typeA[idx(x, y - 1)] = DIRT, !.dataA[idx(x, y - 1)] = 30], x, y - 1)
    ELSE w1)

\* move, climb or reverse; the history records a reversal with the direction
\* before and the direction stored
antMove(w, x, y, dir) ==
  LET nx == x + antMoves[dir + 1][1]
      ny == y + antMoves[dir + 1][2]
      nt == IF inb(nx, ny) THEN w.typeA[idx(nx, ny)] ELSE AIR
  IN IF inb(nx, ny) /\ nt = AIR THEN swapAt(w, x, y, nx, ny)
     ELSE IF inb(nx, ny) /\ (IS_SOLID(nt) \/ IS_POWDER(nt))
             /\ y - 1 >= 0 /\ w.typeA[idx(x, y - 1)] = AIR
     THEN swapAt(w, x, y, x, y - 1)
     ELSE [w EXCEPT !.dataA[idx(x, y)] = (@ \div 4) * 4 + antReverse(dir),
                    !.calls = @ \cup {<<"reverse", dir, antReverse(dir)>>}]

antStep(w, x, y) ==
  Then(antTurn(w, x, y), LAMBDA w1 :
    Then(IF y + 1 < H /\ w1.typeA[idx(x, y + 1)] \in {AIR, WATER}
         THEN trySwapIfHeavier(w1, x, y, x, y + 1) ELSE NoSwap(w1), LAMBDA fall :
      IF fall.r THEN fall.w
      ELSE Then(antCollectAll([w |-> fall.w, found |-> FALSE], x, y, Neighbors4(x, y), 1),
                LAMBDA w2 :
             Then(antMound(antDrop(w2, x, y), x, y), LAMBDA w3 :
               antMove(w3, x, y, w1.dataA[idx(x, y)] % 4)))))

(* ------------------------------------------------------------ explodeAt *)
\* floor of the binary logarithm of n >= 1
RECURSIVE log2(_)
log2(n) == IF n < 2 THEN 0 ELSE 1 + log2(n \div 2)

Sign(n) == IF n > 0 THEN 1 ELSE (IF n < 0 THEN -1 ELSE 0)

\* "clamp(base + num * fall, -hi, hi)" stored into an Int16Array, with
\* fall = 1 - sqrt(d2)/6 on the row of the blast (d2 = adx * adx).  In doubles
\* fall is (6 - adx)/6 + c * 2^-53 with c = 1/3, 2/3, 1/3, -1/3 at adx = 1, 2,
\* 4, 5 and exact at 0, 3, 6.  When the exact product K is a whole number the
\* rounded product lies m units in the last place of K off K (above at adx 2
\* and 4, below at adx 5, m = 0 at adx 1); the sum with base then truncates
\* to one less than base + K (in magnitude) when that offset pulls towards
\* zero and is not rounded away in the sum.
shockAdd(base, num, adx, hi) ==
  LET n6 == num * (6 - adx)
      K == n6 \div 6
      S == base + K
      e == log2(Abs(K))
      E == log2(Abs(S))
      m == IF adx \in {2, 4} THEN (IF Abs(K) = 2 ^ e THEN 0 ELSE 1)
           ELSE IF adx = 5 THEN (IF 2 * Abs(K) >= 3 * (2 ^ e) THEN 2 ELSE 1)
           ELSE 0
      shrink == IF adx = 5 THEN Sign(K) = Sign(S) ELSE Sign(K) # Sign(S)
      away == IF Abs(S) = 2 ^ E THEN m * (2 ^ (e + 2)) <= 2 ^ E
              ELSE m * (2 ^ (e + 1)) <= 2 ^ E
      sum == IF n6 % 6 # 0 \/ n6 = 0 THEN TDiv(6 * base + n6, 6)
             ELSE IF m = 0 \/ S = 0 \/ ~shrink \/ away THEN S
             ELSE S - Sign(S)
  IN clamp(sum, -hi, hi)

\* the air rows other than the row of the blast need sqrt of a non-square
applyShockwave(w, cx, cy, strength) ==
  LET ax0 == toAirX(cx)
      ay0 == toAirY(cy)
      dxOf(ai) == (ai % aW) - ax0
      hit(ai) == ai \div aW = ay0 /\ Abs(dxOf(ai)) <= 6
      w1 == [w EXCEPT
               !.pField = [ai \in AirCells |->
                             IF hit(ai) THEN shockAdd(@[ai], strength, Abs(dxOf(ai)), P_MAX)
                             ELSE @[ai]],
               !.vxField = [ai \in AirCells |->
                              IF hit(ai) THEN shockAdd(@[ai], dxOf(ai) * 240, Abs(dxOf(ai)), V_MAX)
                              ELSE @[ai]]]
  IN IF aH = 1 THEN w1 ELSE partial(w1)

\* the body of the first loop of explodeAt for the cell (nx, ny) at squared
\* distance d2; the rolls against fall for WOOD and GRAVEL are not modelled
blastCell(w, nx, ny, d2, rr) ==
  LET ni == idx(nx, ny)
      nt == w.typeA[ni]
      lit(v, base, n) ==
        Then(rnd(v), LAMBDA v1 : markCellAndNeighbors(
               [v1 EXCEPT !.typeA[ni] = FIRE, !.dataA[ni] = base + irandOf(v1.seed, n)], nx, ny))
      ring ==
        IF nt \in {AIR, SMOKE, STEAM, GAS}
        THEN Then(rnd(w), LAMBDA v1 :
               IF rndLess(v1.seed, 4, 10)
               THEN Then(rnd(v1), LAMBDA v2 : markCellAndNeighbors(
                      [v2 EXCEPT !.typeA[ni] = SPARK,
                                 !.dataA[ni] = 15 + irandOf(v2.seed, 20)], nx, ny))
               ELSE Then(rnd(v1), LAMBDA v2 :
                      IF rndLess(v2.seed, 3, 10) THEN lit(v2, 50, 60)
                      ELSE markCellAndNeighbors(v2, nx, ny)))
        ELSE IF IS_BURNABLE(nt) THEN lit(w, 70, 80) ELSE w
      w1 == IF 4 * d2 < rr
            THEN (IF ~IS_SOLID(nt) \/ nt = WOOD THEN lit(w, 80, 80) ELSE w)
            ELSE IF 10 * d2 < 7 * rr THEN ring ELSE w
  IN IF nt \in {WOOD, GRAVEL} THEN partial(w1) ELSE w1

\* cells lo..hi of the part of the square of half-width r around (cx, cy)
\* that lies on the grid, row by row
RECURSIVE blastCells(_, _, _, _, _, _)
blastCells(w, cx, cy, r, lo, hi) ==
  LET x0 == Max(0, cx - r)
      y0 == Max(0, cy - r)
      cols == Min(W - 1, cx + r) - x0 + 1
      nx == x0 + (lo % cols)
      ny == y0 + (lo \div cols)
      d2 == (nx - cx) * (nx - cx) + (ny - cy) * (ny - cy)
  IN IF lo > hi THEN w
     ELSE IF lo = hi
     THEN (IF d2 > r * r THEN w ELSE blastCell(w, nx, ny, d2, r * r))
     ELSE Then(blastCells(w, cx, cy, r, lo, (lo + hi) \div 2),
               LAMBDA v : blastCells(v, cx, cy, r, (lo + hi) \div 2 + 1, hi))

blastAll(w, cx, cy, r) ==
  LET cols == Min(W - 1, cx + r) - Max(0, cx - r) + 1
      rows == Min(H - 1, cy + r) - Max(0, cy - r) + 1
  IN blastCells(w, cx, cy, r, 0, cols * rows - 1)

\* "dataA[ni] = 255" for every NITRO and GAS cell of the square of half-width
\* radius + 2; no chunk is marked
chainPrimed(w, cx, cy, radius) ==
  [w EXCEPT !.dataA = [i \in DOMAIN @ |->
     IF /\ w.typeA[i] \in {NITRO, GAS}
        /\ Abs((i % W) - cx) <= radius + 2
        /\ Abs((i \div W) - cy) <= radius + 2
     THEN 255 ELSE @[i]]]

explodeAt(w, cx, cy, radius, pressure) ==
  Then(blastAll(w, cx, cy, radius), LAMBDA w1 :
    Then(chainPrimed(applyShockwave(w1, cx, cy, pressure), cx, cy, radius), LAMBDA w2 :
      Then(rnd(w2), LAMBDA w3 :
        markCellAndNeighbors(
          [w3 EXCEPT !.typeA[idx(cx, cy)] = FIRE,
                     !.dataA[idx(cx, cy)] = 60 + irandOf(w3.seed, 60)], cx, cy))))

\* NITRO: r tells whether powderStep returned
nitroStep(w, x, y, rawWmag) ==
  LET i == idx(x, y)
      p == Abs(sampleAirP(w, x, y))
      unstable == w.dataA[i]
      w1 == IF p > 5000 \/ rawWmag > 8000
            THEN [w EXCEPT !.dataA[i] = Min(255, unstable + 5)] ELSE w
      shouldExplode ==
        \/ hasNeighborOfType(w1, x, y, FIRE)
        \/ hasNeighborOfType(w1, x, y, SPARK)
        \/ hasNeighborOfType(w1, x, y, LAVA)
        \/ p > 15000
        \/ unstable > 200
  IN IF shouldExplode THEN [w |-> explodeAt(w1, x, y, 8, 4500), r |-> TRUE]
     ELSE [w |-> w1, r |-> FALSE]

fireworkExplode(w, x, y) ==
  partial(markCellAndNeighbors([w EXCEPT !.typeA[idx(x, y)] = SMOKE,
                                         !.dataA[idx(x, y)] = 60], x, y))

\* FIREWORK with fuse > 0: "dataA[i] = fuse - 1"
fuseDown(w, x, y) == [w EXCEPT !.dataA[idx(x, y)] = @ - 1]

\* the spark a burning fuse emits with probability 0.1 into the row above
fuseSpark(w, x, y) ==
  Then(rnd(w), LAMBDA w1 :
    IF ~rndLess(w1.seed, 1, 10) THEN w1
    ELSE LET w2 == rnd(w1)
             sx == clamp(x + irandOf(w2.seed, 3) - 1, 0, W - 1)
             sy == clamp(y - 1, 0, H - 1)
             si == idx(sx, sy)
         IN IF w2.typeA[si] = AIR
            THEN LET w3 == rnd(w2)
                 IN markCellAndNeighbors(
                      [w3 EXCEPT !.typeA[si] = SPARK,
                                 !.dataA[si] = 8 + irandOf(w3.seed, 8)], sx, sy)
            ELSE w2)

\* the FIREWORK branch of powderStep; r tells that the step has returned
fireworkFuse(w, x, y) ==
  LET i == idx(x, y)
  IN IF w.dataA[i] > 0
     THEN Then(fuseSpark(fuseDown(w, x, y), x, y), LAMBDA w1 :
            [w |-> IF hasNeighborOfType(w1, x, y, FIRE) \/ hasNeighborOfType(w1, x, y, SPARK)
                   THEN [w1 EXCEPT !.dataA[i] = Max(0, @ - 10)] ELSE w1,
             r |-> FALSE])
     ELSE [w |-> fireworkExplode(w, x, y), r |-> TRUE]

powderStep(w, x, y, t) ==
  LET wind == getEffectiveWind(w, x, y, t)
      windDir == IF wind.vx < 0 THEN -1 ELSE (IF wind.vx > 0 THEN 1 ELSE 0)
  IN IF t = ANT THEN antStep(w, x, y)
     ELSE IF t = NITRO
     THEN LET pre == nitroStep(w, x, y, wind.rawMag)
          IN IF pre.r THEN pre.w ELSE defaultPowder(pre.w, x, y, wind.mag, windDir)
     ELSE IF t = FIREWORK
     THEN LET pre == fireworkFuse(w, x, y)
          IN IF pre.r THEN pre.w ELSE defaultPowder(pre.w, x, y, wind.mag, windDir)
     ELSE IF t = SAND
     THEN LET pre == sandWetness(w, x, y)
          IN IF pre.r THEN pre.w ELSE sandStep(pre.w, x, y, wind.mag, windDir)
     ELSE IF t = DIRT THEN sandStep(w, x, y, wind.mag, windDir)
     ELSE IF t = RUST
     THEN LET pre == rustCrumble(w, x, y)
          IN IF pre.r THEN pre.w ELSE defaultPowder(pre.w, x, y, wind.mag, windDir)
     ELSE IF t = GRAVEL THEN gravelStep(w, x, y, wind.mag, windDir)
     ELSE IF t \in {ASH, SEED} THEN lightStep(w, x, y, wind.mag, wind.vy, windDir)
     ELSE defaultPowder(w, x, y, wind.mag, windDir)

(* ------------------------------------------------------------ fluidStep *)
\* supercooled water; r tells whether fluidStep returned
waterFreeze(w, x, y) ==
  LET i == idx(x, y)
      temp == w.dataA[i]
      p == sampleAirP(w, x, y)
      ice(v) == markCellAndNeighbors([v EXCEPT !.typeA[i] = ICE, !.dataA[i] = 0], x, y)
  IN IF temp < 110
     THEN IF \E tn \in {ICE, SAND, ASH, DIRT} : hasNeighborOfType(w, x, y, tn)
          THEN [w |-> ice(w), r |-> TRUE]
          ELSE IF Abs(p) > 12000
               THEN LET w1 == rnd(w)
                    IN IF rndLess(w1.seed, 35, 100)
                       THEN [w |-> ice(w1), r |-> TRUE]
                       ELSE [w |-> w1, r |-> FALSE]
               ELSE NoSwap(w)
     ELSE NoSwap(w)

\* evaporation into the cell above; evap as a fraction of 130000
waterEvaporate(w, x, y, wmag) ==
  LET i == idx(x, y)
      temp == w.dataA[i]
      aboveI == idx(x, y - 1)
      aboveT == IF y - 1 >= 0 THEN w.typeA[aboveI] ELSE STONE
      p == sampleAirP(w, x, y)
      evap == 195 + (IF temp > 150 THEN (temp - 150) * 25 ELSE 0)
                  + (IF p < -2000 THEN 520 ELSE 0)
                  + (IF wmag > 8000000 THEN 390 ELSE 0)
  IN IF y - 1 >= 0 /\ aboveT \in {AIR, SMOKE, STEAM}
     THEN LET w1 == rnd(w)
          IN IF rndLess(w1.seed, evap, 130000)
             THEN LET w2 == IF aboveT = STEAM
                            THEN [w1 EXCEPT !.dataA[aboveI] = Min(255, @ + 18)]
                            ELSE LET w1b == rnd(w1)
                                 IN [w1b EXCEPT !.typeA[aboveI] = STEAM,
                                                !.dataA[aboveI] = 120 + irandOf(w1b.seed, 90)]
                      w3 == [w2 EXCEPT !.dataA[i] = Max(0, temp - 1)]
                  IN markCellAndNeighbors(w3, x, y - 1)
             ELSE w1
     ELSE w

\* wind-driven surface drift (runs after the sideways spread did not return)
surfaceDrift(w, x, y, wind, c) ==
  LET cc == Max(100, c)
      aboveT == IF y - 1 >= 0 THEN w.typeA[idx(x, y - 1)] ELSE STONE
      sx == IF wind.vx < 0 THEN -1 ELSE (IF wind.vx > 0 THEN 1 ELSE 0)
      \* driftChance = min(0.8, mag/8000 * coupling) = rawMag * c^2 / 8e9
      num == wind.rawMag * ((c * c) \div 25)
      den == 320000000
  IN IF wind.rawMag * cc > 4000000 /\ y - 1 >= 0 /\ aboveT \in {AIR, SMOKE, STEAM, GAS}
     THEN LET w1 == rnd(w)
              hit == IF num >= 256000000 THEN rndLess(w1.seed, 8, 10)
                     ELSE rndLess(w1.seed, num \div 100, den \div 100)
          IN IF hit /\ sx # 0 THEN trySwapIfHeavier(w1, x, y, x + sx, y).w ELSE w1
     ELSE w

fluidMove(w, x, y, t, bias, wind, c) ==
  LET b == IF y + 1 < H THEN w.typeA[idx(x, y + 1)] ELSE STONE
      r0 == IF y + 1 < H /\ ~(t = OIL /\ b = WATER)
            THEN trySwapIfHeavier(w, x, y, x, y + 1) ELSE NoSwap(w)
  IN IF r0.r THEN r0.w
     ELSE LET r1 == IF y + 1 < H THEN trySwapIfHeavier(w, x, y, x + bias, y + 1) ELSE NoSwap(w)
          IN IF r1.r THEN r1.w
             ELSE LET r2 == IF y + 1 < H THEN trySwapIfHeavier(w, x, y, x - bias, y + 1)
                            ELSE NoSwap(w)
                  IN IF r2.r THEN r2.w
                     ELSE LET r3 == trySwapIfHeavier(w, x, y, x + bias, y)
                          IN IF r3.r THEN r3.w
                             ELSE surfaceDrift(trySwapIfHeavier(w, x, y, x - bias, y).w,
                                               x, y, wind, c)

(* ------------------------------------------------- fluidStep: ACID, SOAP *)
IS_ORGANIC(t) == t \in {WOOD, PLANT, SPROUT, SEED, VINE, ANT, DIRT}

\* the roll of the acid against a neighbour of type nt, in thousandths
acidOdds(nt) ==
  IF IS_ORGANIC(nt) THEN 150 ELSE IF nt = METAL THEN 20 ELSE IF nt = SOAP THEN 250 ELSE 8

\* the callback of the ACID loop at neighbour (nx, ny); c holds the world w,
\* the local strength and the local dissolved
acidNeighbor(c, x, y, nx, ny) ==
  LET i == idx(x, y)
      ni == idx(nx, ny)
      nt == c.w.typeA[ni]
      becomes(v, t, d) == markCellAndNeighbors([v EXCEPT !.typeA[ni] = t, !.dataA[ni] = d], nx, ny)
  IN IF c.dissolved \/ ~(IS_ORGANIC(nt) \/ nt \in {METAL, SOAP, STONE}) THEN c
     ELSE Then(rnd(c.w), LAMBDA w1 :
       IF ~rndLess(w1.seed, acidOdds(nt), 1000) THEN [c EXCEPT !.w = w1]
       ELSE IF IS_ORGANIC(nt)
       THEN Then(rnd(w1), LAMBDA w2 :
              [w |-> becomes(w2, SMOKE, 60 + irandOf(w2.seed, 40)),
               strength |-> c.strength - 20, dissolved |-> TRUE])
       ELSE IF nt = METAL
       THEN [w |-> becomes(w1, RUST, 0), strength |-> c.strength - 30, dissolved |-> TRUE]
       ELSE IF nt = SOAP
       THEN Then(rnd(w1), LAMBDA w2 : Then(rnd(w2), LAMBDA w3 :
              [c EXCEPT !.w = markCellAndNeighbors(
                 becomes([w3 EXCEPT !.typeA[i] = FOAM, !.dataA[i] = 80 + irandOf(w3.seed, 60)],
                         FOAM, 80 + irandOf(w2.seed, 60)), x, y)]))
       ELSE [c EXCEPT !.w = becomes(w1, GRAVEL, 0), !.strength = @ - 40])

RECURSIVE acidLoop(_, _, _, _, _)
acidLoop(c, x, y, nb, k) ==
  IF k > Len(nb) THEN c
  ELSE Then(acidNeighbor(c, x, y, nb[k][1], nb[k][2]), LAMBDA c1 : acidLoop(c1, x, y, nb, k + 1))

\* the ACID block of fluidStep; r: fluidStep returned
acidStep(w, x, y) ==
  LET i == idx(x, y)
  IN Then(acidLoop([w |-> w, strength |-> w.dataA[i], dissolved |-> FALSE],
                   x, y, Neighbors4(x, y), 1), LAMBDA c :
       IF c.strength <= 0
       THEN [w |-> markCellAndNeighbors([c.w EXCEPT !.typeA[i] = WATER, !.dataA[i] = 128], x, y),
             r |-> TRUE]
       ELSE [w |-> [c.w EXCEPT !.dataA[i] = c.strength], r |-> FALSE])

\* SOAP beside WATER blows FOAM into the AIR cells around it
RECURSIVE soapFoam(_, _, _)
soapFoam(w, nb, k) ==
  IF k > Len(nb) THEN w
  ELSE IF w.typeA[idx(nb[k][1], nb[k][2])] # AIR THEN soapFoam(w, nb, k + 1)
  ELSE Then(rnd(w), LAMBDA w1 :
         IF ~rndLess(w1.seed, 3, 10) THEN soapFoam(w1, nb, k + 1)
         ELSE Then(rnd(w1), LAMBDA w2 :
                soapFoam(markCellAndNeighbors(
                           [w2 EXCEPT !.typeA[idx(nb[k][1], nb[k][2])] = FOAM,
                                      !.dataA[idx(nb[k][1], nb[k][2])] = 120 + irandOf(w2.seed, 80)],
                           nb[k][1], nb[k][2]), nb, k + 1)))

\* SOAP pushes neighbouring WATER one cell further
RECURSIVE soapPush(_, _, _, _)
soapPush(w, x, nb, k) ==
  IF k > Len(nb) THEN w
  ELSE LET nx == nb[k][1]
           ny == nb[k][2]
           farX == nx + (IF nx > x THEN 1 ELSE -1)
       IN IF w.typeA[idx(nx, ny)] = WATER /\ farX >= 0 /\ farX < W
             /\ w.typeA[idx(farX, ny)] = AIR
          THEN Then(rnd(w), LAMBDA w1 :
                 IF ~rndLess(w1.seed, 15, 100) THEN soapPush(w1, x, nb, k + 1)
                 ELSE soapPush(markCellAndNeighbors(markCellAndNeighbors(
                        [w1 EXCEPT !.typeA[idx(farX, ny)] = WATER, !.dataA[idx(farX, ny)] = 128,
                                   !.typeA[idx(nx, ny)] = AIR, !.dataA[idx(nx, ny)] = 0],
                        farX, ny), nx, ny), x, nb, k + 1))
          ELSE soapPush(w, x, nb, k + 1)

\* the SOAP block of fluidStep; r: fluidStep returned
soapStep(w, x, y) ==
  LET i == idx(x, y)
      wet == hasNeighborOfType(w, x, y, WATER)
  IN Then(IF wet THEN rnd(w) ELSE w, LAMBDA w1 :
     Then(IF wet /\ rndLess(w1.seed, 8, 100) THEN soapFoam(w1, Neighbors4(x, y), 1) ELSE w1,
          LAMBDA w2 :
     Then(rnd(soapPush(w2, x, Neighbors4(x, y), 1)), LAMBDA w3 :
       IF w3.dataA[i] - (IF rndLess(w3.seed, 1, 100) THEN 1 ELSE 0) <= 0
       THEN [w |-> markCellAndNeighbors([w3 EXCEPT !.typeA[i] = AIR, !.dataA[i] = 0], x, y),
             r |-> TRUE]
       ELSE [w |-> [w3 EXCEPT !.dataA[i] = @ - (IF rndLess(w3.seed, 1, 100) THEN 1 ELSE 0)],
             r |-> FALSE])))

fluidStep(w, x, y, t) ==
  IF t = LAVA /\ (w.tick % 4) # 0 THEN w
  ELSE IF t = MUD /\ (w.tick % 2) # 0 THEN w
  ELSE
    LET wind == getEffectiveWind(w, x, y, t)
        c == WIND_COUPLING(t)
        cc == Max(100, c)
        w1 == rnd(w)
        bias == IF c # 0 /\ Abs(sampleAirVX(w, x, y)) > (500000000 \div (c * cc))
                THEN (IF wind.vx < 0 THEN -1 ELSE 1)
                ELSE (IF rndLess(w1.seed, 1, 2) THEN -1 ELSE 1)
    IN IF t = WATER
       THEN LET fr == waterFreeze(w1, x, y)
            IN IF fr.r THEN fr.w
               ELSE fluidMove(waterEvaporate(fr.w, x, y, wind.mag), x, y, t, bias, wind, c)
       ELSE IF t \in {ACID, SOAP}
       THEN Then(IF t = ACID THEN acidStep(w1, x, y) ELSE soapStep(w1, x, y), LAMBDA pre :
              IF pre.r THEN pre.w ELSE fluidMove(pre.w, x, y, t, bias, wind, c))
       ELSE fluidMove(w1, x, y, t, bias, wind, c)

(* -------------------------------------------------------------- gasStep *)
countNeighbors8(w, x, y, tNeed) ==
  Cardinality({ d \in (-1..1) \X (-1..1) :
                  d # <<0, 0>> /\ inb(x + d[1], y + d[2])
                  /\ w.typeA[idx(x + d[1], y + d[2])] = tNeed })

\* ttl countdown shared by GAS, FOAM and the plain gases; r: the cell expired
gasTTL(w, x, y) ==
  LET i == idx(x, y)
  IN IF w.dataA[i] > 0
     THEN [w |-> [w EXCEPT !.dataA[i] = @ - 1], r |-> FALSE]
     ELSE [w |-> markCellAndNeighbors([w EXCEPT !.typeA[i] = AIR, !.dataA[i] = 0], x, y),
           r |-> TRUE]

methaneStep(w, x, y) ==
  IF \E tn \in {FIRE, SPARK, LAVA} : hasNeighborOfType(w, x, y, tn)
  THEN explodeAt(w, x, y, 4, 1800)
  ELSE
    LET w1 == IF y - 1 >= 0 THEN rnd(w) ELSE w
        rise == y - 1 >= 0 /\ rndLess(w1.seed, 7, 10)
        r1 == IF rise THEN trySwapIfHeavier(w1, x, y, x, y - 1) ELSE NoSwap(w1)
        w2 == IF rise /\ ~r1.r THEN rnd(w1) ELSE w1
        r2 == IF rise /\ ~r1.r
              THEN trySwapIfHeavier(w2, x, y, x + (IF rndLess(w2.seed, 1, 2) THEN -1 ELSE 1), y - 1)
              ELSE r1
    IN IF r2.r THEN r2.w
       ELSE LET w3 == rnd(r2.w)
                w4 == rnd(w3)
            IN IF rndLess(w3.seed, 3, 10)
               THEN trySwapIfHeavier(w4, x, y, x + (IF rndLess(w4.seed, 1, 2) THEN -1 ELSE 1), y).w
               ELSE w3

foamStep(w, x, y) ==
  LET i == idx(x, y)
      alone == ~hasNeighborOfType(w, x, y, WATER) /\ ~hasNeighborOfType(w, x, y, SOAP)
      w1 == IF alone THEN rnd(w) ELSE w
      w2 == IF alone /\ rndLess(w1.seed, 5, 100) THEN [w1 EXCEPT !.dataA[i] = 0] ELSE w1
      w3 == IF y - 1 >= 0 THEN rnd(w2) ELSE w2
      r1 == IF y - 1 >= 0 /\ rndLess(w3.seed, 6, 10)
            THEN trySwapIfHeavier(w3, x, y, x, y - 1) ELSE NoSwap(w3)
  IN IF r1.r THEN r1.w
     ELSE LET w4 == rnd(w3)
              w5 == rnd(w4)
          IN IF rndLess(w4.seed, 4, 10)
             THEN trySwapIfHeavier(w5, x, y, x + (IF rndLess(w5.seed, 1, 2) THEN -1 ELSE 1), y).w
             ELSE w4

\* steam condensing into cloud; r: gasStep returned
steamCondense(w, x, y) ==
  LET i == idx(x, y)
      p == sampleAirP(w, x, y)
      steamMass == countNeighbors8(w, x, y, STEAM) + countNeighbors8(w, x, y, CLOUD)
      cooling == sampleAirVY(w, x, y) < -2500 \/ p < -3000
      chance == 40 + steamMass * 15 + (IF cooling THEN 60 ELSE 0)
  IN IF cooling \/ steamMass >= 4
     THEN LET w1 == rnd(w)
              w2 == rnd(w1)
          IN IF rndLess(w1.seed, chance, 1000)
             THEN [w |-> markCellAndNeighbors(
                           [w2 EXCEPT !.typeA[i] = CLOUD,
                                      !.dataA[i] = 35 + irandOf(w2.seed, 35)], x, y),
                   r |-> TRUE]
             ELSE [w |-> w1, r |-> FALSE]
     ELSE NoSwap(w)

RECURSIVE sparkIgnite(_, _, _)
sparkIgnite(w, nb, k) ==
  IF k > Len(nb) THEN w
  ELSE LET ni == idx(nb[k][1], nb[k][2])
       IN IF IS_BURNABLE(w.typeA[ni])
          THEN LET w1 == rnd(w)
                   w2 == rnd(w1)
               IN IF rndLess(w1.seed, 35, 100)
                  THEN sparkIgnite(markCellAndNeighbors(
                                     [w2 EXCEPT !.typeA[ni] = FIRE,
                                                !.dataA[ni] = 70 + irandOf(w2.seed, 80)],
                                     nb[k][1], nb[k][2]), nb, k + 1)
                  ELSE sparkIgnite(w1, nb, k + 1)
          ELSE sparkIgnite(w, nb, k + 1)

sparkStep(w, x, y, vx) ==
  LET w1 == rnd(w)
      jump == rndLess(w1.seed, 45, 100)
      w2 == IF jump THEN rnd(w1) ELSE w1
      w3 == IF jump THEN rnd(w2) ELSE w2
      sx == (IF vx < 0 THEN -1 ELSE 1) * (IF rndLess(w2.seed, 1, 2) THEN 1 ELSE 2)
      sy == IF rndLess(w3.seed, 6, 10) THEN -1 ELSE 0
      r1 == IF jump
            THEN trySwapIfHeavier(w3, x, y, clamp(x + sx, 0, W - 1), clamp(y + sy, 0, H - 1))
            ELSE NoSwap(w3)
  IN IF r1.r THEN r1.w
     ELSE LET w4 == rnd(r1.w)
          IN IF rndLess(w4.seed, 25, 100) THEN sparkIgnite(w4, Neighbors4(x, y), 1) ELSE w4

\* wind advection of the plain gases; r: gasStep returned
gasAdvect(w, x, y, wind, c) ==
  LET cc == Max(100, c)
      thr == 2000000000 \div (c * cc)
      rawVY == sampleAirVY(w, x, y)
      adv == Min(7500, 3500 + c * 4)
      sx == IF wind.vx < 0 THEN -1 ELSE (IF wind.vx > 0 THEN 1 ELSE 0)
      sideways == wind.rawMag > thr
      down == rawVY > thr
      up == rawVY < -thr
  IN Then(IF sideways THEN rnd(w) ELSE w, LAMBDA w1 :
     Then(IF sideways /\ rndLess(w1.seed, adv, 10000) /\ sx # 0
          THEN trySwapIfHeavier(w1, x, y, x + sx, y) ELSE NoSwap(w1), LAMBDA r1 :
       IF r1.r THEN r1
       ELSE
     Then(IF down THEN rnd(w1) ELSE w1, LAMBDA w2 :
     Then(IF down /\ rndLess(w2.seed, adv, 20000)
          THEN trySwapIfHeavier(w2, x, y, x, y + 1) ELSE NoSwap(w2), LAMBDA r2 :
       IF r2.r THEN r2
       ELSE
     Then(IF up THEN rnd(w2) ELSE w2, LAMBDA w3 :
       IF up /\ rndLess(w3.seed, adv * 6, 100000)
       THEN trySwapIfHeavier(w3, x, y, x, y - 1) ELSE NoSwap(w3))))))

cloudMass(w, x, y) == countNeighbors8(w, x, y, CLOUD)

\* "(v * 0.85) | 0" and "(v * 0.6) | 0" are taken as the truncated exact
\* product; a product that is a whole number may come out one off in doubles
scaleField(w, ai, pct) ==
  LET v == w.vyField[ai]
      w1 == [w EXCEPT !.vyField[ai] = TDiv(v * pct, 100)]
  IN IF v = 0 \/ (v * pct) % 100 # 0 THEN w1 ELSE partial(w1)

\* The weather lifecycle at the end of gasStep, in its stages.  A stage takes
\* and returns the record c: the world w, waterContent wc and charged ch.
\* water gained from updraft or mass, and lost by a small cloud
cloudWater(c, mass, updraft) ==
  LET w1 == IF (mass >= 4 /\ updraft) \/ mass >= 6 THEN rnd(c.w) ELSE c.w
      wc1 == IF mass >= 4 /\ updraft THEN Min(127, c.wc + 1 + irandOf(w1.seed, 2))
             ELSE IF mass >= 6 THEN Min(127, c.wc + irandOf(w1.seed, 2))
             ELSE c.wc
  IN [c EXCEPT !.w = w1,
               !.wc = IF mass < 3 /\ (c.w.tick % 8) = 0 THEN Max(0, wc1 - 1) ELSE wc1]

cloudCharge(c, mass, updraft) ==
  LET storm == mass >= 6 /\ updraft /\ c.wc > 80
      w1 == IF (storm /\ c.ch = 0) \/ (~storm /\ c.ch = 1) THEN rnd(c.w) ELSE c.w
  IN [c EXCEPT !.w = w1,
               !.ch = IF storm /\ c.ch = 0 /\ rndLess(w1.seed, 8, 100) THEN 1
                      ELSE IF ~storm /\ c.ch = 1 /\ rndLess(w1.seed, 2, 100) THEN 0
                      ELSE c.ch]

\* a drop of WATER into the cell below
cloudRain(c, x, y, mass, ai) ==
  LET rainThreshold == 60 + (IF mass < 5 THEN 30 ELSE 0)
      rainTry == c.wc > rainThreshold /\ mass >= 4
      w1 == IF rainTry THEN rnd(c.w) ELSE c.w
      rains == /\ rainTry
               /\ rndLess(w1.seed, 200 + (c.wc - rainThreshold) * 5, 10000)
               /\ y + 1 < H
               /\ c.w.typeA[idx(x, y + 1)] \in {AIR, SMOKE, STEAM}
  IN IF ~rains THEN [c EXCEPT !.w = w1]
     ELSE Then(rnd(markCellAndNeighbors(
                 [w1 EXCEPT !.typeA[idx(x, y + 1)] = WATER, !.dataA[idx(x, y + 1)] = 128],
                 x, y + 1)),
               LAMBDA w2 : [c EXCEPT !.w = scaleField(w2, ai, 85),
                                     !.wc = Max(0, c.wc - 15 - irandOf(w2.seed, 10))])

\* strikeLightning itself is not modelled
cloudFlash(c, mass, ai) ==
  LET flashTry == c.ch = 1 /\ mass >= 6 /\ c.wc > 70
      w1 == IF flashTry THEN rnd(c.w) ELSE c.w
  IN IF flashTry /\ rndLess(w1.seed, 15, 1000)
     THEN [w |-> partial([scaleField(w1, ai, 60) EXCEPT
                            !.pField[ai] = clamp(@ - 800, -P_MAX, P_MAX)]),
           wc |-> Max(0, c.wc - 40), ch |-> 0]
     ELSE [c EXCEPT !.w = w1]

\* the cloud dissolves into STEAM, or the two fields are saved back
cloudFade(c, x, y, mass) ==
  LET i == idx(x, y)
      fadeTry == c.wc < 15 /\ mass <= 2
      w1 == IF fadeTry THEN rnd(c.w) ELSE c.w
  IN IF fadeTry /\ rndLess(w1.seed, 15, 1000)
     THEN Then(rnd(w1), LAMBDA w2 : markCellAndNeighbors(
            [w2 EXCEPT !.typeA[i] = STEAM, !.dataA[i] = 90 + irandOf(w2.seed, 40)], x, y))
     ELSE [w1 EXCEPT !.dataA[i] = c.wc + 128 * c.ch]

\* i is the index of (x, y), where the cloud was when gasStep began; the
\* history records the type of the cell the lifecycle works on
cloudLife(w, x, y, cloudMassLocal) ==
  LET i == idx(x, y)
      ai == aidx(toAirX(x), toAirY(y))
      mass == IF cloudMassLocal # 0 THEN cloudMassLocal ELSE cloudMass(w, x, y)
      updraft == w.vyField[ai] < -1800 \/ w.pField[ai] < -2500
  IN Then([w |-> [w EXCEPT !.calls = @ \cup {<<"cloud", i, w.typeA[i]>>}],
           wc |-> w.dataA[i] % 128, ch |-> w.dataA[i] \div 128], LAMBDA c0 :
     Then(cloudWater(c0, mass, updraft), LAMBDA c1 :
     Then(cloudCharge(c1, mass, updraft), LAMBDA c2 :
     Then(cloudRain(c2, x, y, mass, ai), LAMBDA c3 :
     Then(cloudFlash(c3, mass, ai), LAMBDA c4 : cloudFade(c4, x, y, mass))))))

gasMove(w, x, y, t) ==
  LET wind == getEffectiveWind(w, x, y, t)
      c == WIND_COUPLING(t)
      cc == Max(100, c)
      up == y - 1 >= 0
      even == (w.tick % 2) = 0
      cloudMassLocal == IF t = CLOUD THEN cloudMass(w, x, y) ELSE 0
      sideCount(dx) ==
        Cardinality({ ny \in (y - 1)..(y + 1) :
                        inb(x + dx, ny) /\ w.typeA[idx(x + dx, ny)] = CLOUD })
      biasOf(w1) ==
        LET b == IF Abs(sampleAirVX(w, x, y)) > (300000000 \div (c * cc))
                 THEN (IF wind.vx < 0 THEN -1 ELSE 1)
                 ELSE (IF rndLess(w1.seed, 1, 2) THEN -1 ELSE 1)
        IN IF t = CLOUD /\ sideCount(-1) > sideCount(1) THEN -1
           ELSE IF t = CLOUD /\ sideCount(1) > sideCount(-1) THEN 1
           ELSE b
      \* the moves tried after condensation, with the side bias drawn before it
      moves(w2, bias, rise) ==
        Then(IF up /\ rise THEN trySwapIfHeavier(w2, x, y, x, y - 1) ELSE NoSwap(w2),
             LAMBDA r1 :
        Then(IF up /\ rise /\ ~r1.r THEN trySwapIfHeavier(r1.w, x, y, x + bias, y - 1) ELSE r1,
             LAMBDA r2 :
          IF r2.r THEN r2.w
          ELSE
        Then(IF up /\ rise THEN trySwapIfHeavier(r2.w, x, y, x - bias, y - 1).w ELSE r2.w,
             LAMBDA w3 :
        Then(IF even THEN trySwapIfHeavier(w3, x, y, x + bias, y) ELSE NoSwap(w3),
             LAMBDA r4 :
          IF r4.r THEN r4.w
          ELSE
        Then(IF even THEN trySwapIfHeavier(r4.w, x, y, x - bias, y).w ELSE r4.w,
             LAMBDA w5 :
        Then(gasAdvect(w5, x, y, wind, c), LAMBDA r6 :
          IF r6.r THEN r6.w
          ELSE IF t = SPARK THEN sparkStep(r6.w, x, y, wind.vx)
          ELSE IF t = CLOUD THEN cloudLife(r6.w, x, y, cloudMassLocal)
          ELSE r6.w))))))
  IN Then(rnd(w), LAMBDA w1 :
     Then(IF t = STEAM THEN steamCondense(w1, x, y) ELSE NoSwap(w1), LAMBDA cond :
       IF cond.r THEN cond.w
       ELSE IF t = CLOUD
       THEN Then(rnd(cond.w), LAMBDA w2 :
              moves(w2, biasOf(w1),
                    rndLess(w2.seed, IF cloudMassLocal >= 5 THEN 35 ELSE 55, 100)))
       ELSE moves(cond.w, biasOf(w1), TRUE)))

gasStep(w, x, y, t) ==
  IF t = LASER THEN partial(w)
  ELSE IF t = CLOUD THEN gasMove(w, x, y, t)
  ELSE LET ttl == gasTTL(w, x, y)
       IN IF ttl.r THEN ttl.w
          ELSE IF t = GAS THEN methaneStep(ttl.w, x, y)
          ELSE IF t = FOAM THEN foamStep(ttl.w, x, y)
          ELSE gasMove(ttl.w, x, y, t)

(* ------------------------------------------------------ fireAndLifeCell *)
RECURSIVE fireSpread(_, _, _)
fireSpread(w, nb, k) ==
  IF k > Len(nb) THEN w
  ELSE LET nx == nb[k][1]
           ny == nb[k][2]
           ni == idx(nx, ny)
           nt == w.typeA[ni]
           w1 == rnd(w)
           w2 == rnd(w1)
       IN IF IS_BURNABLE(nt)
          THEN IF rndLess(w1.seed, 22, 100)
               THEN fireSpread(markCellAndNeighbors(
                                 [w2 EXCEPT !.typeA[ni] = FIRE,
                                            !.dataA[ni] = 60 + irandOf(w2.seed, 90)], nx, ny),
                               nb, k + 1)
               ELSE fireSpread(w1, nb, k + 1)
          ELSE IF nt = WATER
          THEN IF rndLess(w1.seed, 18, 100)
               THEN fireSpread(markCellAndNeighbors(
                                 [w2 EXCEPT !.typeA[ni] = STEAM,
                                            !.dataA[ni] = 50 + irandOf(w2.seed, 60)], nx, ny),
                               nb, k + 1)
               ELSE fireSpread(w1, nb, k + 1)
          ELSE fireSpread(w, nb, k + 1)

fireCell(w, x, y) ==
  LET i == idx(x, y)
      ttl == w.dataA[i]
      ai == aidx(toAirX(x), toAirY(y))
  IN IF ttl = 0
     THEN LET w1 == rnd(w)
              w2 == rnd(w1)
          IN IF rndLess(w1.seed, 75, 100)
             THEN markCellAndNeighbors(
                    [w2 EXCEPT !.typeA[i] = SMOKE,
                               !.dataA[i] = 120 + irandOf(w2.seed, 80)], x, y)
             ELSE markCellAndNeighbors([w1 EXCEPT !.typeA[i] = ASH, !.dataA[i] = 0], x, y)
     ELSE LET w1 == [w EXCEPT !.dataA[i] = ttl - 1,
                              !.pField[ai] = I16(clamp(@ + 150, -P_MAX, P_MAX)),
                              !.vyField[ai] = I16(clamp(@ - 520, -V_MAX, V_MAX))]
              w2 == rnd(w1)
              w3 == rnd(w2)
              sx == clamp(x + irandOf(w3.seed, 3) - 1, 0, W - 1)
              sy == clamp(y - 1, 0, H - 1)
              si == idx(sx, sy)
              w4 == rnd(w3)
              w5 == IF rndLess(w2.seed, 8, 100)
                    THEN IF w3.typeA[si] \in {AIR, SMOKE, STEAM}
                         THEN markCellAndNeighbors(
                                [w4 EXCEPT !.typeA[si] = SPARK,
                                           !.dataA[si] = 18 + irandOf(w4.seed, 18)], sx, sy)
                         ELSE w3
                    ELSE w2
          IN fireSpread(w5, Neighbors4(x, y), 1)

dirtCell(w, x, y) ==
  LET i == idx(x, y)
      m0 == w.dataA[i]
      m1 == IF hasNeighborOfType(w, x, y, WATER) THEN Min(255, m0 + 3) ELSE m0
      m2 == IF hasNeighborOfType(w, x, y, FIRE) THEN (IF m1 > 2 THEN m1 - 2 ELSE 0) ELSE m1
      ash == hasNeighborOfType(w, x, y, ASH)
      w1 == IF ash THEN rnd(w) ELSE w
      m3 == IF ash /\ rndLess(w1.seed, 2, 100) THEN Min(255, m2 + 1) ELSE m2
      nb == Neighbors4(x, y)
      dk == { k \in DOMAIN nb : w.typeA[idx(nb[k][1], nb[k][2])] = DIRT }
      RECURSIVE sumOf(_)
      sumOf(ks) == IF ks = {} THEN 0
                   ELSE LET k == CHOOSE j \in ks : TRUE
                        IN w.dataA[idx(nb[k][1], nb[k][2])] + sumOf(ks \ {k})
      avg == IF dk = {} THEN 0 ELSE sumOf(dk) \div Cardinality(dk)
      \* (m + (avg - m) * 0.08) | 0
      m4 == IF (w.tick % 8) = 0 /\ dk # {} THEN TDiv(92 * m3 + 8 * avg, 100) ELSE m3
      aboveI == idx(x, y - 1)
      dry == m4 > 140 /\ y > 0 /\ w1.typeA[aboveI] \in {AIR, SMOKE}
      w2 == IF dry THEN rnd(w1) ELSE w1
      w3 == rnd(w2)
      evap == dry /\ rndLess(w2.seed, 2, 1000)
      w4 == IF evap
            THEN markCellAndNeighbors(
                   [w3 EXCEPT !.typeA[aboveI] = STEAM,
                              !.dataA[aboveI] = 110 + irandOf(w3.seed, 90)], x, y - 1)
            ELSE w2
      m5 == IF evap THEN Max(0, m4 - 3) ELSE m4
  IN IF m5 # m0
     THEN markCellAndNeighbors([w4 EXCEPT !.dataA[i] = m5], x, y)
     ELSE w4

seedCell(w, x, y) ==
  LET i == idx(x, y)
      rawData == w.dataA[i]
      age == rawData % 128
      bi == idx(x, y + 1)
      hasDirtBelow == y + 1 < H /\ w.typeA[bi] = DIRT
      hasWater == hasNeighborOfType(w, x, y, WATER)
      moist == IF hasDirtBelow THEN w.dataA[bi] ELSE 0
  IN IF hasDirtBelow /\ (moist > 35 \/ hasWater)
     THEN LET age1 == Min(127, age + 1 + (IF hasWater THEN 1 ELSE 0))
              due == age1 > (IF hasWater THEN 25 ELSE 40)
              w1 == IF due THEN rnd(w) ELSE w
              germ == due /\ rndLess(w1.seed, IF hasWater THEN 35 ELSE 20, 100)
              w2 == IF germ
                    THEN [w1 EXCEPT !.typeA[i] = SPROUT, !.dataA[i] = 0,
                                    !.dataA[bi] = Max(0, @ - 5)]
                    ELSE [w1 EXCEPT !.dataA[i] = age1 + 128]
          IN markCellAndNeighbors(w2, x, y)
     ELSE LET age1 == IF age > 0 /\ (w.tick % 16) = 0 THEN age - 1 ELSE age
              dying == age1 = 0 /\ rawData > 0
              w1 == IF dying THEN rnd(w) ELSE w
          IN IF dying /\ rndLess(w1.seed, 5, 1000)
             THEN markCellAndNeighbors([w1 EXCEPT !.typeA[i] = ASH, !.dataA[i] = 0], x, y)
             ELSE [w1 EXCEPT !.dataA[i] = age1]

\* SPROUT and PLANT (simWorker.js 1556-1628)
plantCell(w, x, y, t) ==
  LET i == idx(x, y)
      age0 == w.dataA[i]
      moist == bestNeighborMoisture(w, x, y)
      hasWater == hasNeighborOfType(w, x, y, WATER)
      hasFire == hasNeighborOfType(w, x, y, FIRE)
      good == moist > 20 \/ hasWater
      bi == idx(x, y + 1)
      ui == idx(x, y - 1)
      \* moisture taken from the dirt below
      drink == good /\ (w.tick % 4) = 0 /\ y + 1 < H
               /\ w.typeA[bi] = DIRT /\ w.dataA[bi] > 0
      weak(age) == age < 5 /\ moist < 8 /\ ~hasWater
      \* growth, or wilting without water
      grown(w1) ==
        IF good
        THEN (IF rndLess(w1.seed, 75, 100)
              THEN Min(255, age0 + (IF hasWater THEN 2 ELSE 1)) ELSE age0)
        ELSE (IF (w.tick % 8) = 0 /\ age0 > 0 THEN age0 - 1 ELSE age0)
      \* everything after the fire check; age1 is the age after growth
      rest(w4, age1) ==
        Then(IF t = SPROUT /\ age1 > 20 THEN 30 ELSE age1, LAMBDA age2 :
        \* the upgrade writes typeA[i] and calls no mark function
        Then([w4 EXCEPT !.typeA[i] = IF t = SPROUT /\ age1 > 20 THEN PLANT ELSE @,
                        !.dataA[i] = age2], LAMBDA w6 :
        \* growing upward
        Then(IF age2 > 15 THEN rnd(w6) ELSE w6, LAMBDA w7 :
        Then(IF age2 > 15 /\ rndLess(w7.seed, 12, 100) /\ y - 1 >= 0 /\ w7.typeA[ui] = AIR
             THEN markCellAndNeighbors(
                    [w7 EXCEPT !.typeA[ui] = PLANT, !.dataA[ui] = 15], x, y - 1)
             ELSE w7, LAMBDA w8 :
        \* turning into wood
        Then(IF t = PLANT /\ age2 > 120 THEN rnd(w8) ELSE w8, LAMBDA w9 :
        Then(IF t = PLANT /\ age2 > 120 /\ rndLess(w9.seed, 2, 100)
             THEN markCellAndNeighbors([w9 EXCEPT !.typeA[i] = WOOD, !.dataA[i] = 0], x, y)
             ELSE w9, LAMBDA w10 :
        \* drying out
        Then(IF weak(age2) THEN rnd(w10) ELSE w10, LAMBDA w11 :
          IF weak(age2) /\ rndLess(w11.seed, 15, 1000)
          THEN markCellAndNeighbors([w11 EXCEPT !.typeA[i] = ASH, !.dataA[i] = 0], x, y)
          ELSE w11)))))))
  IN Then(IF good THEN rnd(w) ELSE w, LAMBDA w1 :
     Then(IF drink THEN rnd(w1) ELSE w1, LAMBDA w2 :
     Then(IF drink /\ rndLess(w2.seed, 35, 100)
          THEN [w2 EXCEPT !.dataA[bi] = Max(0, @ - 1)] ELSE w2, LAMBDA w3 :
     \* fire next to the plant
     Then(IF hasFire THEN rnd(w3) ELSE w3, LAMBDA w4 :
       IF hasFire /\ rndLess(w4.seed, 15, 100)
       THEN Then(rnd(w4), LAMBDA w5 :
              markCellAndNeighbors(
                [w5 EXCEPT !.typeA[i] = FIRE, !.dataA[i] = 60 + irandOf(w5.seed, 80)], x, y))
       ELSE rest(w4, grown(w1))))))

(* -------------------------------------------------- LAVA (fire and life) *)
\* "cond && rnd() < n/d": the draw is taken only when cond holds
lavaRoll(w, cond, n, d) ==
  IF cond THEN [w |-> rnd(w), r |-> rndLess(rndNext(w.seed), n, d)] ELSE [w |-> w, r |-> FALSE]

\* heat loss at the surface, heat gain inside a lava body; c carries the
\* locals heat and crusted of the branch
lavaCool(w, x, y, heat, crusted) ==
  LET lavaNeighbors == countNeighbors8(w, x, y, LAVA)
      hasAir == hasNeighborOfType(w, x, y, AIR)
  IN IF hasAir /\ lavaNeighbors < 4
     THEN IF crusted = 1
          THEN [w |-> w, heat |-> Max(0, heat - 1), crusted |-> crusted]
          ELSE [w |-> rnd(w), heat |-> Max(0, heat - 1 - irandOf(rndNext(w.seed), 2)),
                crusted |-> crusted]
     ELSE IF lavaNeighbors >= 6
     THEN [w |-> rnd(w), heat |-> Min(127, heat + irandOf(rndNext(w.seed), 2)),
           crusted |-> crusted]
     ELSE [w |-> w, heat |-> heat, crusted |-> crusted]

\* the crust forms on cool lava at the surface and breaks on hot lava
lavaCrust(c, hasAir) ==
  Then(lavaRoll(c.w, c.crusted = 0 /\ c.heat < 50 /\ hasAir, 8, 100), LAMBDA a :
  Then(IF a.r THEN 1 ELSE c.crusted, LAMBDA cr1 :
  Then(lavaRoll(a.w, cr1 = 1 /\ c.heat > 90, 5, 100), LAMBDA b :
    [w |-> b.w, heat |-> c.heat, crusted |-> IF b.r THEN 0 ELSE cr1])))

\* the contact effects on one neighbour; nt is read once, before the effects
lavaNeighbor(c, nx, ny) ==
  LET ni == idx(nx, ny)
      nt == c.w.typeA[ni]
  IN Then(lavaRoll(c.w, nt = SAND /\ c.heat > 80, 4, 100), LAMBDA a :
     Then(IF a.r THEN markCellAndNeighbors([a.w EXCEPT !.typeA[ni] = STONE, !.dataA[ni] = 0],
                                           nx, ny) ELSE a.w, LAMBDA w1 :
     Then(lavaRoll(w1, nt = DIRT /\ c.heat > 60, 2, 100), LAMBDA b :
     Then(IF b.r THEN markCellAndNeighbors([b.w EXCEPT !.typeA[ni] = GRAVEL, !.dataA[ni] = 0],
                                           nx, ny) ELSE b.w, LAMBDA w2 :
     Then(lavaRoll(w2, nt = ICE, 25, 100), LAMBDA d :
     Then(IF d.r THEN markCellAndNeighbors(
                        [d.w EXCEPT !.seed = rndNext(@), !.typeA[ni] = STEAM,
                                    !.dataA[ni] = 80 + irandOf(rndNext(d.w.seed), 60)], nx, ny)
          ELSE d.w, LAMBDA w3 :
     Then(lavaRoll(w3, IS_BURNABLE(nt) /\ c.crusted = 0, 25, 100), LAMBDA e :
       [c EXCEPT !.w =
          IF e.r THEN markCellAndNeighbors(
                        [e.w EXCEPT !.seed = rndNext(@), !.typeA[ni] = FIRE,
                                    !.dataA[ni] = 70 + irandOf(rndNext(e.w.seed), 80)], nx, ny)
          ELSE e.w])))))))

RECURSIVE lavaContact(_, _, _)
lavaContact(c, nb, k) ==
  IF k > Len(nb) THEN c
  ELSE Then(lavaNeighbor(c, nb[k][1], nb[k][2]), LAMBDA c1 : lavaContact(c1, nb, k + 1))

\* solidification of cold lava, heat radiation into the air, store of the aux
lavaSettle(c, x, y) ==
  LET i == idx(x, y)
      ai == aidx(toAirX(x), toAirY(y))
  IN Then(lavaRoll(c.w, c.heat < 15, 3, 100), LAMBDA a :
       IF a.r
       THEN markCellAndNeighbors(
              [a.w EXCEPT !.typeA[i] = IF c.crusted = 1 THEN STONE ELSE GRAVEL,
                          !.dataA[i] = 0], x, y)
       ELSE Then(IF c.crusted = 0 /\ c.heat > 50
                 THEN [a.w EXCEPT !.pField[ai] = clamp(@ + 80 + c.heat, -30000, 30000),
                                  !.vyField[ai] = clamp(@ - 200, -24000, 24000)]
                 ELSE a.w, LAMBDA w1 :
              [w1 EXCEPT !.dataA[i] = (c.heat % 128) + 128 * c.crusted]))

\* the LAVA branch of fireAndLifeCell; the quench by water is not modelled
lavaCell(w, x, y) ==
  LET rawData == w.dataA[idx(x, y)]
      hasAir == hasNeighborOfType(w, x, y, AIR)
      hasWater == hasNeighborOfType(w, x, y, WATER)
  IN Then(lavaCool(w, x, y, rawData % 128, rawData \div 128), LAMBDA c0 :
     Then(lavaCrust(c0, hasAir), LAMBDA c1 :
     Then(lavaRoll(c1.w, hasWater, 40, 100), LAMBDA q :
       IF q.r THEN partial(q.w)
       ELSE Then(lavaContact([c1 EXCEPT !.w = q.w], Neighbors4(x, y), 1), LAMBDA c2 :
              lavaSettle(c2, x, y)))))

fireAndLifeCell(w, x, y) ==
  LET t == w.typeA[idx(x, y)]
  IN CASE t = FIRE -> fireCell(w, x, y)
       [] t = DIRT -> dirtCell(w, x, y)
       [] t = SEED -> seedCell(w, x, y)
       [] t \in {SPROUT, PLANT} -> plantCell(w, x, y, t)
       [] t = LAVA -> lavaCell(w, x, y)
       [] t \in {ICE, METAL, VINE} -> partial(w)
       [] OTHER -> w

(* ------------------------------------------------------------ updateAir *)
\* The solver works in floating point and truncates on every store.  The
\* model takes each expression as an exact fraction and truncates where the
\* code does.  Wide products are carried in five signed limbs of base 10000.
BASE == 10000

BNorm(d) ==
  LET c1 == d[1] \div BASE
      c2 == (d[2] + c1) \div BASE
      c3 == (d[3] + c2) \div BASE
      c4 == (d[4] + c3) \div BASE
  IN <<d[1] % BASE, (d[2] + c1) % BASE, (d[3] + c2) % BASE, (d[4] + c3) % BASE, d[5] + c4>>

BOf(n) == BNorm(<<n, 0, 0, 0, 0>>)
BMul(a, m) == BNorm(<<a[1] * m, a[2] * m, a[3] * m, a[4] * m, a[5] * m>>)
BAdd(a, b) == BNorm(<<a[1] + b[1], a[2] + b[2], a[3] + b[3], a[4] + b[4], a[5] + b[5]>>)
BNeg(a) == BNorm(<<-a[1], -a[2], -a[3], -a[4], -a[5]>>)

\* floor(a / c) for a >= 0, 0 < c <= 200000
BDiv(a, c) ==
  LET r5 == a[5] % c
      n4 == r5 * BASE + a[4]
      n3 == (n4 % c) * BASE + a[3]
      n2 == (n3 % c) * BASE + a[2]
      n1 == (n2 % c) * BASE + a[1]
  IN BNorm(<<n1 \div c, n2 \div c, n3 \div c, n4 \div c, a[5] \div c>>)

RECURSIVE BDivAll(_, _, _)
BDivAll(a, cs, k) == IF k > Len(cs) THEN a ELSE BDivAll(BDiv(a, cs[k]), cs, k + 1)

BInt(a) == a[1] + BASE * a[2] + BASE * BASE * a[3]

\* (a / (cs[1] * cs[2] * ...)) | 0
BTrunc(a, cs) ==
  IF a[5] < 0 THEN -BInt(BDivAll(BNeg(a), cs, 1)) ELSE BInt(BDivAll(a, cs, 1))

\* clamp(state.windDamp || 93, 80, 99), in hundredths
dampOf(w) == clamp(IF w.windDamp = 0 THEN 93 ELSE w.windDamp, 80, 99)

updateSolidField(w) ==
  [ai \in AirCells |->
     LET baseX == (ai % aW) * AIR_SCALE
         baseY == (ai \div aW) * AIR_SCALE
         x1 == clamp(baseX + 1, 0, W - 1)
         x2 == clamp(baseX + AIR_SCALE - 2, 0, W - 1)
         y1 == clamp(baseY + 1, 0, H - 1)
         y2 == clamp(baseY + AIR_SCALE - 2, 0, H - 1)
         one(x, y) == IF IS_SOLID(w.typeA[idx(x, y)]) THEN 1 ELSE 0
     IN one(x1, y1) + one(x2, y1) + one(x1, y2) + one(x2, y2)]

\* the in-grid neighbours of a coarse cell: left, right, up, down
airNbrs(i) ==
  LET ax == i % aW
      ay == i \div aW
  IN (IF ax > 0 THEN {i - 1} ELSE {}) \cup (IF ax < aW - 1 THEN {i + 1} ELSE {})
     \cup (IF ay > 0 THEN {i - aW} ELSE {}) \cup (IF ay < aH - 1 THEN {i + aW} ELSE {})

RECURSIVE sumOver(_, _)
sumOver(f, S) == IF S = {} THEN 0
                 ELSE LET e == CHOOSE j \in S : TRUE IN f[e] + sumOver(f, S \ {e})

\* phase 1: pressure diffusion into pNext, then the buffers are swapped
airDiffuseP(pF) ==
  [i \in AirCells |->
     LET cnt == Cardinality(airNbrs(i))
         sum == sumOver(pF, airNbrs(i))
         np == IF cnt = 0 THEN TDiv(74 * pF[i], 100)
               ELSE TDiv(74 * cnt * pF[i] + 26 * sum, 100 * cnt)
     IN I16(clamp(np, -P_MAX, P_MAX))]

\* phase 2: pressure gradient to velocity, cell after cell; pField is relaxed
\* in place, so the left and upper neighbours are read after their relaxation
RECURSIVE airGradient(_, _)
airGradient(w, i) ==
  IF i >= aN THEN w
  ELSE
    LET ax == i % aW
        ay == i \div aW
        d == dampOf(w)
        p == w.pField[i]
        pl == IF ax > 0 THEN w.pField[i - 1] ELSE p
        pr == IF ax < aW - 1 THEN w.pField[i + 1] ELSE p
        pu == IF ay > 0 THEN w.pField[i - aW] ELSE p
        pd == IF ay < aH - 1 THEN w.pField[i + aW] ELSE p
        vx1 == TDiv(d * w.vxField[i] + 42 * (pl - pr), 100)
        vy1 == TDiv(d * w.vyField[i] + 42 * (pu - pd), 100)
        \* easing toward the global wind, which is zero here
        vx2 == TDiv(975 * vx1, 1000)
        vy2 == TDiv(975 * vy1, 1000)
        t == w.turb
        gust == t > 0 /\ (w.tick % 8) = 0
        w1 == IF gust THEN rnd(w) ELSE w
        w2 == IF gust THEN rnd(w1) ELSE w
        vx3 == IF gust THEN vx2 + (irandOf(w1.seed, 2 * t + 1) - t) * 4 ELSE vx2
        vy3 == IF gust THEN vy2 + (irandOf(w2.seed, 2 * t + 1) - t) * 4 ELSE vy2
        relax == 19640 + 7 * (d - 80)
    IN Then([w2 EXCEPT !.vxNext[i] = I16(clamp(vx3, -V_MAX, V_MAX)),
                       !.vyNext[i] = I16(clamp(vy3, -V_MAX, V_MAX)),
                       !.pField[i] = I16(TDiv(p * relax, 20000))],
            LAMBDA v : airGradient(v, i + 1))

\* phase 3: velocity diffusion from vNext into vField
airDiffuseV(vN) ==
  [i \in AirCells |->
     LET cnt == Cardinality(airNbrs(i))
         sum == sumOver(vN, airNbrs(i))
         nv == IF cnt = 0 THEN vN[i]
               ELSE TDiv(72 * cnt * vN[i] + 28 * sum, 100 * cnt)
     IN I16(clamp(nv, -V_MAX, V_MAX))]

\* phase 4: semi-Lagrangian self-advection; vN is the copy taken before the
\* loop, f the field component being advected.  Positions are in 12000ths of
\* a coarse cell: (v / 18000) * 1.5 = v / 12000.
advectOne(f, vxN, vyN, i, d) ==
  LET ax == i % aW
      ay == i \div aW
      backX == clamp(12000 * ax - vxN[i], 0, 12000 * (aW - 1))
      backY == clamp(12000 * ay - vyN[i], 0, 12000 * (aH - 1))
      bx0 == backX \div 12000
      by0 == backY \div 12000
      bx1 == Min(bx0 + 1, aW - 1)
      by1 == Min(by0 + 1, aH - 1)
      FX == backX % 12000
      FY == backY % 12000
      top == f[aidx(bx0, by0)] * (12000 - FX) + f[aidx(bx1, by0)] * FX
      bot == f[aidx(bx0, by1)] * (12000 - FX) + f[aidx(bx1, by1)] * FX
      adv == BAdd(BMul(BOf(top), 12000 - FY), BMul(BOf(bot), FY))
      own == BMul(BMul(BOf(38 * f[i]), 12000), 12000)
      decay == 96500 + 17 * (d - 80)
      mix == BMul(BAdd(own, BMul(adv, 62)), decay)
  IN I16(clamp(BTrunc(mix, <<12000, 12000, 100, 100000>>), -V_MAX, V_MAX))

\* phase 5: divergence into pressure
airDivergence(w) ==
  [i \in AirCells |->
     LET ax == i % aW
         ay == i \div aW
         vl == IF ax > 0 THEN w.vxField[i - 1] ELSE w.vxField[i]
         vr == IF ax < aW - 1 THEN w.vxField[i + 1] ELSE w.vxField[i]
         vu == IF ay > 0 THEN w.vyField[i - aW] ELSE w.vyField[i]
         vd == IF ay < aH - 1 THEN w.vyField[i + aW] ELSE w.vyField[i]
         s == vr - vl + vd - vu
     IN IF s # 0
        THEN I16(clamp(TDiv(100 * w.pField[i] - 28 * s, 100), -P_MAX, P_MAX))
        ELSE w.pField[i]]

\* phase 6, dominant wind: the averages over every fifth coarse cell
airSamples == { i \in AirCells : i % 5 = 0 }

\* hypot(tx / n, ty / n) > lim
magAbove(tx, ty, n, lim) ==
  \/ Abs(tx) > lim * n
  \/ Abs(ty) > lim * n
  \/ tx * tx + ty * ty > lim * lim * n * n

\* phase 6 at a solid coarse cell
airBlock(w, i, sol) ==
  LET ax == i % aW
      ay == i \div aW
      oldVX == w.vxField[i]
      oldVY == w.vyField[i]
      m == Abs(oldVX) + Abs(oldVY)
      \* blockedEnergy * 0.6 = m * sol * 27 / 100
      push(v, sgn) == I16(clamp(TDiv(100 * v + sgn * 27 * sol * m, 100), -V_MAX, V_MAX))
      \* (norm * blockedEnergy * 0.3) | 0 = old * m * sol * 27 / (200 * (m + 1))
      side(v, old) ==
        I16(clamp(v + BTrunc(BMul(BOf(old * 27 * sol), m), <<200, m + 1>>), -V_MAX, V_MAX))
      w1 == [w EXCEPT !.vxField[i] = I16(TDiv(oldVX * (100 - 35 * sol), 100)),
                      !.vyField[i] = I16(TDiv(oldVY * (100 - 35 * sol), 100)),
                      !.pField[i] = I16(clamp(@ + sol * 280, -P_MAX, P_MAX))]
  IN IF Abs(oldVX) > Abs(oldVY)
     THEN LET w2 == IF ay > 0
                    THEN [w1 EXCEPT !.vyField[i - aW] = push(@, -1),
                                    !.vxField[i - aW] = side(@, oldVX)]
                    ELSE w1
          IN IF ay < aH - 1
             THEN [w2 EXCEPT !.vyField[i + aW] = push(@, 1),
                             !.vxField[i + aW] = side(@, oldVX)]
             ELSE w2
     ELSE LET w2 == IF ax > 0
                    THEN [w1 EXCEPT !.vxField[i - 1] = push(@, -1),
                                    !.vyField[i - 1] = side(@, oldVY)]
                    ELSE w1
          IN IF ax < aW - 1
             THEN [w2 EXCEPT !.vxField[i + 1] = push(@, 1),
                             !.vyField[i + 1] = side(@, oldVY)]
             ELSE w2

\* shadow cast on cell i by solid cells upwind: <<strength * 100, dist>>
leeShadow(solid, i, wdx, wdy) ==
  LET ax == i % aW
      ay == i \div aW
      str(dist) ==
        LET ux == ax - wdx * dist
            uy == ay - wdy * dist
        IN IF ux >= 0 /\ uy >= 0 /\ ux < aW /\ uy < aH
           THEN solid[aidx(ux, uy)] * (122 - 22 * dist) ELSE 0
      best == CHOOSE k \in 1..4 :
                 /\ \A o \in 1..4 : str(o) <= str(k)
                 /\ \A o \in 1..(k - 1) : str(o) < str(k)
  IN <<str(best), best>>

\* (v * leeFactor) | 0 with leeFactor = 1 - 0.55 * shadowStrength
leeScale(v, s100) == I16(TDiv(v * (10000 - 55 * s100), 10000))

\* phase 6 at a free coarse cell: lee zone, then the venturi channels
airLee(w, i, solid, wdx, wdy, strong) ==
  LET ax == i % aW
      ay == i \div aW
      vortexDir == IF ((w.tick + ax + ay) % 2) = 1 THEN 1 ELSE -1
      left == IF ax > 0 THEN solid[i - 1] ELSE 0
      right == IF ax < aW - 1 THEN solid[i + 1] ELSE 0
      up == IF ay > 0 THEN solid[i - aW] ELSE 0
      down == IF ay < aH - 1 THEN solid[i + aW] ELSE 0
      lee(sh) ==
        LET s100 == sh[1]
            swirl == s100 > 0 /\ strong /\ sh[2] = 2
        IN Then(IF s100 > 0
                THEN [w EXCEPT
                        !.vxField[i] = leeScale(@, s100),
                        !.vyField[i] = leeScale(@, s100),
                        !.pField[i] = I16(clamp(@ - TDiv(s100 * 120, 100), -P_MAX, P_MAX))]
                ELSE w, LAMBDA w1 :
           Then(IF swirl THEN rnd(w1) ELSE w1, LAMBDA w2 :
             IF swirl /\ rndLess(w2.seed, 15, 100)
             THEN IF Abs(wdx) > Abs(wdy)
                  THEN [w2 EXCEPT !.vyField[i] =
                          I16(clamp(@ + vortexDir * s100 * 4, -V_MAX, V_MAX))]
                  ELSE [w2 EXCEPT !.vxField[i] =
                          I16(clamp(@ + vortexDir * s100 * 4, -V_MAX, V_MAX))]
             ELSE w2))
  IN Then(IF wdx # 0 \/ wdy # 0 THEN leeShadow(solid, i, wdx, wdy) ELSE <<0, 0>>, LAMBDA sh :
     Then(lee(sh), LAMBDA w3 :
     Then(IF up > 0 /\ down > 0 /\ left = 0 /\ right = 0
          THEN [w3 EXCEPT !.vxField[i] = I16(clamp(TDiv(@ * 122, 100), -V_MAX, V_MAX))]
          ELSE w3, LAMBDA w4 :
       IF left > 0 /\ right > 0 /\ up = 0 /\ down = 0
       THEN [w4 EXCEPT !.vyField[i] = I16(clamp(TDiv(@ * 122, 100), -V_MAX, V_MAX))]
       ELSE w4)))

\* the body of the loop of phase 6 at coarse cell i
airVisit(w, i, solid, wdx, wdy, strong) ==
  IF solid[i] > 0 THEN airBlock(w, i, solid[i])
  ELSE airLee(w, i, solid, wdx, wdy, strong)

RECURSIVE airObstacles(_, _, _, _, _, _)
airObstacles(w, i, solid, wdx, wdy, strong) ==
  IF i >= aN THEN w
  ELSE Then(airVisit(w, i, solid, wdx, wdy, strong),
            LAMBDA v : airObstacles(v, i + 1, solid, wdx, wdy, strong))

\* the dominant wind of phase 6: its direction and whether gMag > 3000
dominantWind(w5) ==
  LET n == Cardinality(airSamples)
  IN Then(sumOver(w5.vxField, airSamples), LAMBDA totalVX :
     Then(sumOver(w5.vyField, airSamples), LAMBDA totalVY :
     Then(magAbove(totalVX, totalVY, n, 250), LAMBDA windy :
       [wdx |-> IF windy THEN (IF totalVX < 0 THEN -1 ELSE IF totalVX > 0 THEN 1 ELSE 0) ELSE 0,
        wdy |-> IF windy THEN (IF totalVY < 0 THEN -1 ELSE IF totalVY > 0 THEN 1 ELSE 0) ELSE 0,
        strong |-> magAbove(totalVX, totalVY, n, 3000)])))

\* phase 6: obstacles, lee zones and channels, under the dominant wind
airPhase6(w5, solid) ==
  Then(dominantWind(w5), LAMBDA g : airObstacles(w5, 0, solid, g.wdx, g.wdy, g.strong))

updateAir(w) ==
  LET d == dampOf(w)
  IN \* phase 1 and buffer swap
     Then([w EXCEPT !.pField = airDiffuseP(w.pField)], LAMBDA w1 :
     \* phase 2
     Then(airGradient([w1 EXCEPT !.vxNext = w.vxField, !.vyNext = w.vyField], 0), LAMBDA w2 :
     \* phase 3
     Then([w2 EXCEPT !.vxField = airDiffuseV(w2.vxNext),
                     !.vyField = airDiffuseV(w2.vyNext)], LAMBDA w3 :
     \* phase 4
     Then([w3 EXCEPT
             !.vxField = [i \in AirCells |-> advectOne(w3.vxField, w3.vxField, w3.vyField, i, d)],
             !.vyField = [i \in AirCells |-> advectOne(w3.vyField, w3.vxField, w3.vyField, i, d)]],
          LAMBDA w4 :
     \* phase 5
     Then([w4 EXCEPT !.pField = airDivergence(w4)], LAMBDA w5 :
     Then(airPhase6(w5, updateSolidField(w)), LAMBDA w6 :
       \* the easing of the ambient and the global wind is not modelled
       [w6 EXCEPT !.vxNext = w.vxNext, !.vyNext = w.vyNext,
                  !.airRuns = @ + 1, !.airCells = @ \cup AirCells,
                  !.whole = @ /\ w.ambVX = 0 /\ w.ambVY = 0
                              /\ w.globalVX = 0 /\ w.globalVY = 0]))))))

(* ----------------------------------------------------------- the passes *)
\* a scan that does not look at the active flag
scanAll(w, ci) == TRUE

\* the guard "if (!cActive[ci]) continue;" of the three scans
chunkScanned(w, ci) == w.cActive[ci] # 0

chunkX0(cx) == cx * CHUNK
chunkX1(cx) == Min(W - 1, cx * CHUNK + CHUNK - 1)
chunkY0(cy) == cy * CHUNK
chunkY1(cy) == Min(H - 1, cy * CHUNK + CHUNK - 1)

\* k-th cell (k >= 0) visited inside chunk (cx, cy) by the scan of a pass
scanCell(pass, cx, cy, k) ==
  LET cols == chunkX1(cx) - chunkX0(cx) + 1
      r == k \div cols
      c == k % cols
      y == IF pass = "powder" THEN chunkY1(cy) - r ELSE chunkY0(cy) + r
      x == IF pass = "fire" \/ (y % 2) = 1 THEN chunkX0(cx) + c ELSE chunkX1(cx) - c
  IN <<x, y>>

scanSize(cx, cy) == (chunkX1(cx) - chunkX0(cx) + 1) * (chunkY1(cy) - chunkY0(cy) + 1)

\* chunks in the order a pass reaches them
chunkOrder(pass) ==
  [k \in 1..cN |->
     LET cx == (k - 1) % cW
         r == (k - 1) \div cW
         cy == IF pass = "powder" THEN cH - 1 - r ELSE r
     IN <<cx, cy>>]

logCall(w, pass, ci, a) == [w EXCEPT !.calls = @ \cup {<<pass, ci, a>>}]

\* the loop bodies of the three scans at one cell; a is cActive[ci] as read
\* when the scan reached the chunk
visitPowder(w, x, y, ci, a) ==
  LET t == w.typeA[idx(x, y)]
  IN IF IS_POWDER(t)
     THEN IF (t = DIRT /\ (w.tick % 4) # 0) \/ (t = ASH /\ (w.tick % 2) # 0) THEN w
          ELSE powderStep(logCall(w, "powder", ci, a), x, y, t)
     ELSE IF IS_FLUID(t) THEN fluidStep(logCall(w, "powder", ci, a), x, y, t)
     ELSE w

visitGas(w, x, y, ci, a) ==
  LET t == w.typeA[idx(x, y)]
  IN IF t \in {SMOKE, STEAM, SPARK, CLOUD, GAS, FOAM, LASER}
     THEN gasStep(logCall(w, "gas", ci, a), x, y, t) ELSE w

visitFire(w, x, y, ci, a) ==
  LET t == w.typeA[idx(x, y)]
  IN IF t \in {FIRE, DIRT, SEED, SPROUT, PLANT, LAVA, ICE, METAL, VINE}
     THEN fireAndLifeCell(logCall(w, "fire", ci, a), x, y) ELSE w

\* cells lo..hi of the scan of chunk (cx, cy), in scan order, one operator
\* per pass
RECURSIVE powderCells(_, _, _, _, _, _)
powderCells(w, cx, cy, lo, hi, a) ==
  IF lo > hi THEN w
  ELSE IF lo = hi
  THEN visitPowder(w, scanCell("powder", cx, cy, lo)[1], scanCell("powder", cx, cy, lo)[2],
                   cidx(cx, cy), a)
  ELSE Then(powderCells(w, cx, cy, lo, (lo + hi) \div 2, a),
            LAMBDA v : powderCells(v, cx, cy, (lo + hi) \div 2 + 1, hi, a))

RECURSIVE gasCells(_, _, _, _, _, _)
gasCells(w, cx, cy, lo, hi, a) ==
  IF lo > hi THEN w
  ELSE IF lo = hi
  THEN visitGas(w, scanCell("gas", cx, cy, lo)[1], scanCell("gas", cx, cy, lo)[2],
                cidx(cx, cy), a)
  ELSE Then(gasCells(w, cx, cy, lo, (lo + hi) \div 2, a),
            LAMBDA v : gasCells(v, cx, cy, (lo + hi) \div 2 + 1, hi, a))

RECURSIVE fireCells(_, _, _, _, _, _)
fireCells(w, cx, cy, lo, hi, a) ==
  IF lo > hi THEN w
  ELSE IF lo = hi
  THEN visitFire(w, scanCell("fire", cx, cy, lo)[1], scanCell("fire", cx, cy, lo)[2],
                 cidx(cx, cy), a)
  ELSE Then(fireCells(w, cx, cy, lo, (lo + hi) \div 2, a),
            LAMBDA v : fireCells(v, cx, cy, (lo + hi) \div 2 + 1, hi, a))

chunkAt(pass, k) == cidx(chunkOrder(pass)[k][1], chunkOrder(pass)[k][2])

RECURSIVE updatePowdersFrom(_, _)
updatePowdersFrom(w, k) ==
  IF k > cN THEN w
  ELSE Then(IF chunkScanned(w, chunkAt("powder", k))
            THEN powderCells(w, chunkOrder("powder")[k][1], chunkOrder("powder")[k][2], 0,
                             scanSize(chunkOrder("powder")[k][1], chunkOrder("powder")[k][2]) - 1,
                             w.cActive[chunkAt("powder", k)])
            ELSE w,
            LAMBDA v : updatePowdersFrom(v, k + 1))

RECURSIVE updateGasesFrom(_, _)
updateGasesFrom(w, k) ==
  IF k > cN THEN w
  ELSE Then(IF chunkScanned(w, chunkAt("gas", k))
            THEN gasCells(w, chunkOrder("gas")[k][1], chunkOrder("gas")[k][2], 0,
                          scanSize(chunkOrder("gas")[k][1], chunkOrder("gas")[k][2]) - 1,
                          w.cActive[chunkAt("gas", k)])
            ELSE w,
            LAMBDA v : updateGasesFrom(v, k + 1))

RECURSIVE updateFireFrom(_, _)
updateFireFrom(w, k) ==
  IF k > cN THEN w
  ELSE Then(IF chunkScanned(w, chunkAt("fire", k))
            THEN fireCells(w, chunkOrder("fire")[k][1], chunkOrder("fire")[k][2], 0,
                           scanSize(chunkOrder("fire")[k][1], chunkOrder("fire")[k][2]) - 1,
                           w.cActive[chunkAt("fire", k)])
            ELSE w,
            LAMBDA v : updateFireFrom(v, k + 1))

updatePowdersAndFluids(w) == updatePowdersFrom(w, 1)
updateGases(w) == updateGasesFrom(w, 1)
updateFireAndLife(w) == updateFireFrom(w, 1)

\* a scheduler that puts a chunk to sleep after its first quiet tick
sleepAtOnce(n) == n > 0

\* a scheduler that lets a chunk count one tick further
sleepLate(n) == n > SLEEP_LIMIT + 1

\* chunk sleep threshold comparison "cSleep[ci] > 70"
sleepDue(n) == n > SLEEP_LIMIT

sleepChunks(w) ==
  LET cnt(ci) == IF w.cChanged[ci] # 0 THEN 0 ELSE U16(w.cSleep[ci] + 1)
  IN [w EXCEPT
        !.cSleep = [ci \in Chunks |-> IF w.cActive[ci] = 0 THEN w.cSleep[ci] ELSE cnt(ci)],
        !.cActive = [ci \in Chunks |->
                       IF w.cActive[ci] # 0 /\ w.cChanged[ci] = 0 /\ sleepDue(cnt(ci))
                       THEN 0 ELSE w.cActive[ci]],
        !.cChanged = [ci \in Chunks |-> IF w.cActive[ci] = 0 THEN w.cChanged[ci] ELSE 0]]

(* --------------------------------------------------------------- paintAt *)
\* aux byte a painted material starts with; r: an irand draw is taken
paintAux(t, s) ==
  CASE t = FIRE -> 60 + irandOf(s, 70)
    [] t = SMOKE -> 120 + irandOf(s, 100)
    [] t = STEAM -> 80 + irandOf(s, 60)
    [] t = WATER -> 128
    [] t = DIRT -> 80
    [] t = MUD -> 140
    [] t = PLANT -> 20
    [] t = ACID -> 200
    [] t = SOAP -> 150
    [] t = GAS -> 180 + irandOf(s, 60)
    [] t = FIREWORK -> 80 + irandOf(s, 100)
    [] t = ANT -> irandOf(s, 4)
    [] OTHER -> 0

paintDraws(t) == t \in {FIRE, SMOKE, STEAM, GAS, FIREWORK, ANT}

\* the tools whose branches of stamp are not modelled; 'clone' and any other
\* tool name fall through stamp without an effect
OtherTools == {"laser", "spawnHuman", "spawnBird", "wind", "pressure", "pressureSource",
               "pressureSink", "vortex"}

\* a roll "rnd() < n/d" taken only when cond holds (the && of the source);
\* the result carries the world after the draw
rollIf(w, cond, n, d) ==
  IF cond THEN [w |-> rnd(w), r |-> rndLess(rndNext(w.seed), n, d)] ELSE [w |-> w, r |-> FALSE]

\* "typeA[i] = t; dataA[i] = lo + irand(n)"
putRandom(w, i, t, lo, n) ==
  [w EXCEPT !.seed = rndNext(w.seed), !.typeA[i] = t,
            !.dataA[i] = U8(lo + irandOf(rndNext(w.seed), n))]

addPressure(w, ai, d) == [w EXCEPT !.pField[ai] = clamp(@ + d, -P_MAX, P_MAX)]

\* the 'temp' branch of stamp for strength s
tempHot(w, x, y) ==
  Then(rollIf(w, IS_BURNABLE(w.typeA[idx(x, y)]), 65, 100), LAMBDA a :
  Then(IF a.r THEN putRandom(a.w, idx(x, y), FIRE, 70, 80) ELSE a.w, LAMBDA w1 :
  Then(IF w1.typeA[idx(x, y)] = ICE
       THEN [w1 EXCEPT !.typeA[idx(x, y)] = WATER, !.dataA[idx(x, y)] = 0] ELSE w1, LAMBDA w2 :
  Then(rollIf(w2, w2.typeA[idx(x, y)] = WATER, 12, 100), LAMBDA b :
  Then(IF b.r THEN putRandom(b.w, idx(x, y), STEAM, 60, 60) ELSE b.w, LAMBDA w3 :
    addPressure(w3, aidx(toAirX(x), toAirY(y)), 220))))))

tempCold(w, x, y) ==
  Then(rollIf(w, w.typeA[idx(x, y)] = WATER, 65, 100), LAMBDA a :
  Then(IF a.r THEN [a.w EXCEPT !.typeA[idx(x, y)] = ICE, !.dataA[idx(x, y)] = 0] ELSE a.w,
       LAMBDA w1 :
  Then(rollIf(w1, w1.typeA[idx(x, y)] = LAVA, 35, 100), LAMBDA b :
  Then(IF b.r THEN [b.w EXCEPT !.typeA[idx(x, y)] = STONE, !.dataA[idx(x, y)] = 0] ELSE b.w,
       LAMBDA w2 :
    addPressure(w2, aidx(toAirX(x), toAirY(y)), -180)))))

tempStamp(w, x, y, s) ==
  markCellAndNeighbors(IF s > 0 THEN tempHot(w, x, y)
                       ELSE IF s < 0 THEN tempCold(w, x, y) ELSE w, x, y)

\* history: the coordinates drawLine plotted and stamp was called with
logXY(w, what, x, y) == [w EXCEPT !.calls = @ \cup {<<what, x, y>>}]

stampAt(w, x, y, st) ==
  IF ~inb(x, y) THEN w
  ELSE LET i == idx(x, y)
       IN IF st.tool = "erase"
          THEN markCellAndNeighbors([w EXCEPT !.typeA[i] = AIR, !.dataA[i] = 0], x, y)
          ELSE IF st.tool = "paint"
          THEN LET t == U8(st.material)
                   w1 == IF paintDraws(t) THEN rnd(w) ELSE w
               IN markCellAndNeighbors(
                    [w1 EXCEPT !.typeA[i] = t, !.dataA[i] = U8(paintAux(t, w1.seed))], x, y)
          ELSE IF st.tool = "temp" THEN tempStamp(w, x, y, st.strength)
          ELSE IF st.tool \in OtherTools THEN partial(w)
          ELSE w

stamp(w, x, y, st) == stampAt(logXY(w, "stamp", x, y), x, y, st)

\* cells of the brush disc around (cx, cy), row by row
brushCells(cx, cy, r) ==
  LET x0 == Max(0, cx - r)
      x1 == Min(W - 1, cx + r)
      y0 == Max(0, cy - r)
      y1 == Min(H - 1, cy + r)
      cols == x1 - x0 + 1
      n == IF x1 < x0 \/ y1 < y0 THEN 0 ELSE cols * (y1 - y0 + 1)
      all == [k \in 1..n |-> <<x0 + ((k - 1) % cols), y0 + ((k - 1) \div cols)>>]
  IN SelectSeq(all, LAMBDA c : (c[1] - cx) * (c[1] - cx) + (c[2] - cy) * (c[2] - cy) <= r * r)

RECURSIVE applyBrushCircle(_, _, _, _)
applyBrushCircle(w, cells, k, st) ==
  IF k > Len(cells) THEN w
  ELSE Then(stamp(w, cells[k][1], cells[k][2], st),
            LAMBDA v : applyBrushCircle(v, cells, k + 1, st))

\* Bresenham line: g holds the constants dx, dy, sx, sy and the end point
RECURSIVE drawLine(_, _, _, _, _, _)
drawLine(w, x0, y0, err, g, st) ==
  LET w1 == applyBrushCircle(logXY(w, "plot", x0, y0), brushCells(x0, y0, st.brush), 1, st)
      e2 == 2 * err
      stepX == e2 >= g.dy
      stepY == e2 <= g.dx
  IN IF x0 = g.x1 /\ y0 = g.y1 THEN w1
     ELSE Then(w1, LAMBDA v :
            drawLine(v, IF stepX THEN x0 + g.sx ELSE x0, IF stepY THEN y0 + g.sy ELSE y0,
                     err + (IF stepX THEN g.dy ELSE 0) + (IF stepY THEN g.dx ELSE 0), g, st))

\* e.fx, e.fy, e.tx, e.ty are (from.x * W) | 0 and so on
rawCell(v, hi) == v

\* "clamp((nx*W)|0, 0, W-1)" of an endpoint coordinate
clampCell(v, hi) == clamp(v, 0, hi)

paintAt(w, e) ==
  LET x0 == clampCell(e.fx, W - 1)
      y0 == clampCell(e.fy, H - 1)
      x1 == clampCell(e.tx, W - 1)
      y1 == clampCell(e.ty, H - 1)
      g == [dx |-> Abs(x1 - x0), dy |-> -Abs(y1 - y0),
            sx |-> IF x0 < x1 THEN 1 ELSE -1, sy |-> IF y0 < y1 THEN 1 ELSE -1,
            x1 |-> x1, y1 |-> y1]
  IN drawLine(w, x0, y0, g.dx + g.dy, g, e.st)

(* ---------------------------------------------------------------- render *)
\* rnd() calls updatePixelsForChunk makes for one cell
pixelDraws(t, d, tk) ==
  CASE t = LAVA -> IF d >= 128 THEN (IF (d % 128) > 70 THEN 1 ELSE 0) ELSE 1
    [] t = WATER -> IF (tk % 32) = 0 THEN 1 ELSE 0
    [] t \in {FIRE, ACID, SOAP, LASER} -> 2
    [] t \in {SMOKE, STEAM, SPARK, GAS, NITRO, FIREWORK, VINE, METAL, RUST, FOAM,
              PLANT, SPROUT} -> 1
    [] t = CLOUD -> IF d >= 128 THEN 1 ELSE 0
    [] OTHER -> 0

RECURSIVE rndTimes(_, _)
rndTimes(s, n) == IF n = 0 THEN s ELSE rndTimes(rndNext(s), n - 1)

RECURSIVE drawsIn(_, _)
drawsIn(w, cells) ==
  IF cells = {} THEN 0
  ELSE LET i == CHOOSE j \in cells : TRUE
       IN pixelDraws(w.typeA[i], w.dataA[i], w.tick) + drawsIn(w, cells \ {i})

chunkCells(ci) ==
  { i \in Cells : cidx(cellToChunkX(i % W), cellToChunkY(i \div W)) = ci }

\* render() with state.visualize = 0: dirty chunks are redrawn and cleared
render(w) ==
  LET dirty == { i \in Cells : w.cDirty[cidx(cellToChunkX(i % W), cellToChunkY(i \div W))] # 0 }
      drawing == { i \in dirty : pixelDraws(w.typeA[i], w.dataA[i], w.tick) > 0 }
  IN [w EXCEPT !.seed = rndTimes(w.seed, drawsIn(w, drawing)),
               !.cDirty = [ci \in Chunks |-> 0]]

(* ----------------------------------------------------- the worker's state *)
VARIABLES
  typeA, dataA,                        \* cell grid
  cActive, cDirty, cChanged, cSleep,   \* chunk scheduler
  pField, vxField, vyField,            \* coarse air fields
  seed,                                \* LCG state
  tick, paused, paintQueue, lastT,     \* step() bookkeeping
  turb,                                \* state.turb
  ambVX, ambVY, globalVX, globalVY,    \* ambient drift and global wind, as sampled (x|0)
  pc,                                  \* position inside step(), "idle" between handlers
  marked, calls, airRuns, airCells,    \* history of the current tick
  passes, type0,                       \* passes run in the current tick, grid at its start
  quiet, base,                         \* per chunk: mark-free ticks, mark pending from init/clear
  whole,                               \* no rule outside the modelled fragment was needed
  sent,                                \* messages sent so far, by kind
  other                                \* a second run of the worker (SpecTwoRuns only)

vars == <<typeA, dataA, cActive, cDirty, cChanged, cSleep, pField, vxField, vyField,
          seed, tick, paused, paintQueue, lastT, turb, ambVX, ambVY, globalVX, globalVY,
          pc, marked, calls, airRuns, airCells, passes, type0, quiet, base, whole,
          sent, other>>

windDampDefault == 93
turbDefault == 18

\* the worker as one record
Machine ==
  [typeA |-> typeA, dataA |-> dataA, cActive |-> cActive, cDirty |-> cDirty,
   cChanged |-> cChanged, cSleep |-> cSleep, pField |-> pField, vxField |-> vxField,
   vyField |-> vyField, vxNext |-> vxField, vyNext |-> vyField, seed |-> seed,
   tick |-> tick, paused |-> paused, paintQueue |-> paintQueue, lastT |-> lastT,
   turb |-> turb, windDamp |-> windDampDefault,
   ambVX |-> ambVX, ambVY |-> ambVY, globalVX |-> globalVX, globalVY |-> globalVY,
   pc |-> pc, marked |-> marked,
   calls |-> calls, airRuns |-> airRuns, airCells |-> airCells, passes |-> passes,
   type0 |-> type0, quiet |-> quiet, base |-> base, whole |-> whole]

Becomes(m) ==
  /\ typeA' = m.typeA /\ dataA' = m.dataA
  /\ cActive' = m.cActive /\ cDirty' = m.cDirty
  /\ cChanged' = m.cChanged /\ cSleep' = m.cSleep
  /\ pField' = m.pField /\ vxField' = m.vxField /\ vyField' = m.vyField
  /\ seed' = m.seed /\ tick' = m.tick /\ paused' = m.paused
  /\ paintQueue' = m.paintQueue /\ lastT' = m.lastT /\ turb' = m.turb
  /\ ambVX' = m.ambVX /\ ambVY' = m.ambVY
  /\ globalVX' = m.globalVX /\ globalVY' = m.globalVY
  /\ pc' = m.pc /\ marked' = m.marked /\ calls' = m.calls
  /\ airRuns' = m.airRuns /\ airCells' = m.airCells /\ passes' = m.passes
  /\ type0' = m.type0 /\ quiet' = m.quiet /\ base' = m.base /\ whole' = m.whole

\* initBuffers(): clearWorld(true), then the seed scene
sceneType(x, y) ==
  IF y >= H - 40 /\ y < H - 25 /\ x >= 40 /\ x < 140 THEN WATER
  ELSE IF y >= H - 50 THEN (IF y > H - 10 THEN STONE ELSE DIRT)
  ELSE AIR

sceneData(x, y) ==
  IF y >= H - 40 /\ y < H - 25 /\ x >= 40 /\ x < 140 THEN 128
  ELSE IF y >= H - 50 THEN (IF y > H - 25 THEN 110 ELSE 60)
  ELSE 0

\* the module-level state before the 'init' message; the typed arrays are
\* allocated zero-filled by initBuffers
boot ==
  [typeA |-> [i \in Cells |-> 0], dataA |-> [i \in Cells |-> 0],
   cActive |-> [ci \in Chunks |-> 0], cDirty |-> [ci \in Chunks |-> 0],
   cChanged |-> [ci \in Chunks |-> 0], cSleep |-> [ci \in Chunks |-> 0],
   pField |-> [i \in AirCells |-> 0], vxField |-> [i \in AirCells |-> 0],
   vyField |-> [i \in AirCells |-> 0], vxNext |-> [i \in AirCells |-> 0],
   vyNext |-> [i \in AirCells |-> 0], seed |-> SEED0,
   tick |-> 0, paused |-> FALSE, paintQueue |-> <<>>, lastT |-> 0,
   turb |-> turbDefault, windDamp |-> windDampDefault,
   ambVX |-> 0, ambVY |-> 0, globalVX |-> 0, globalVY |-> 0,
   pc |-> "idle", marked |-> {},
   calls |-> {}, airRuns |-> 0, airCells |-> {}, passes |-> <<>>,
   type0 |-> [i \in Cells |-> 0],
   quiet |-> [ci \in Chunks |-> 0], base |-> [ci \in Chunks |-> 1], whole |-> TRUE]

\* a clear that also empties the paint queue
clearAll(m, full) ==
  [m EXCEPT !.typeA = [i \in Cells |-> AIR], !.dataA = [i \in Cells |-> 0],
            !.pField = [i \in AirCells |-> 0], !.vxField = [i \in AirCells |-> 0],
            !.vyField = [i \in AirCells |-> 0], !.vxNext = [i \in AirCells |-> 0],
            !.vyNext = [i \in AirCells |-> 0],
            !.ambVX = 0, !.ambVY = 0,
            !.paintQueue = <<>>,
            !.cActive = [ci \in Chunks |-> IF full THEN 1 ELSE 0],
            !.cDirty = [ci \in Chunks |-> 1],
            !.cChanged = [ci \in Chunks |-> 1], !.cSleep = [ci \in Chunks |-> 0],
            !.quiet = [ci \in Chunks |-> 0], !.base = [ci \in Chunks |-> 1]]

\* clearWorld(full): the fills, then cActive set when full
clearWorld(m, full) ==
  [m EXCEPT !.typeA = [i \in Cells |-> AIR], !.dataA = [i \in Cells |-> 0],
            !.pField = [i \in AirCells |-> 0], !.vxField = [i \in AirCells |-> 0],
            !.vyField = [i \in AirCells |-> 0], !.vxNext = [i \in AirCells |-> 0],
            !.vyNext = [i \in AirCells |-> 0],
            !.ambVX = 0, !.ambVY = 0,
            !.cActive = [ci \in Chunks |-> IF full THEN 1 ELSE 0],
            !.cDirty = [ci \in Chunks |-> 1],
            !.cChanged = [ci \in Chunks |-> 1], !.cSleep = [ci \in Chunks |-> 0],
            !.quiet = [ci \in Chunks |-> 0], !.base = [ci \in Chunks |-> 1]]

keepFlags(m) == m

\* the loop of the 'clear' handler over all chunks
flagAllChunks(m) ==
  [m EXCEPT !.cActive = [ci \in Chunks |-> 1], !.cDirty = [ci \in Chunks |-> 1],
            !.cChanged = [ci \in Chunks |-> 1], !.cSleep = [ci \in Chunks |-> 0],
            !.quiet = [ci \in Chunks |-> 0], !.base = [ci \in Chunks |-> 1]]

\* the two seeding loops of initBuffers; every seeded cell calls markCellDirty
sceneRows == { y \in 0..(H - 1) : y >= H - 50 }
sceneChunks == { cidx(cellToChunkX(x), cellToChunkY(y)) : x \in 0..(W - 1), y \in sceneRows }

seedScene(m) ==
  [m EXCEPT !.typeA = [i \in Cells |-> sceneType(i % W, i \div W)],
            !.dataA = [i \in Cells |-> sceneData(i % W, i \div W)],
            !.cActive = [ci \in Chunks |-> IF ci \in sceneChunks THEN 1 ELSE @[ci]],
            !.cDirty = [ci \in Chunks |-> IF ci \in sceneChunks THEN 1 ELSE @[ci]],
            !.cChanged = [ci \in Chunks |-> IF ci \in sceneChunks THEN 1 ELSE @[ci]],
            !.cSleep = [ci \in Chunks |-> IF ci \in sceneChunks THEN 0 ELSE @[ci]],
            !.type0 = [i \in Cells |-> sceneType(i % W, i \div W)]]

\* initBuffers applied to a worker state: fresh arrays, clearWorld(true), the
\* scene; everything that is not a buffer is kept
reallocated(m) ==
  [m EXCEPT !.typeA = boot.typeA, !.dataA = boot.dataA, !.cActive = boot.cActive,
            !.cDirty = boot.cDirty, !.cChanged = boot.cChanged, !.cSleep = boot.cSleep,
            !.pField = boot.pField, !.vxField = boot.vxField, !.vyField = boot.vyField,
            !.vxNext = boot.vxNext, !.vyNext = boot.vyNext]

initBuffersOn(m) == seedScene(clearWorld(reallocated(m), TRUE))

initBuffers == initBuffersOn(boot)

(* ------------------------------------------------------ message handlers *)
\* a queue without a limit
pushAlways(m, e) == [m EXCEPT !.paintQueue = Append(@, e)]

\* onmessage 'stroke'
onStroke(m, e) ==
  IF Len(m.paintQueue) < MAX_QUEUE
  THEN [m EXCEPT !.paintQueue = Append(@, e)] ELSE m

\* onmessage 'togglePause'
onTogglePause(m) == [m EXCEPT !.paused = ~@]

\* onmessage 'clear': clearWorld(false), then every chunk flagged
onClear(m) == flagAllChunks(clearWorld(m, FALSE))

\* onmessage 'resizeSim' (to the same size)
onResizeSim(m) == initBuffersOn(m)

(* ----------------------------------------------------------------- step *)
\* the brush throttle: strokes applied in a tick whose frame time was dt ms
alwaysThree(dt) == 3

strokeLimit(dt) == IF dt > 30 THEN 1 ELSE IF dt > 22 THEN 2 ELSE 3

RECURSIVE drain(_, _)
drain(m, k) ==
  IF k = 0 \/ m.paintQueue = <<>> THEN m
  ELSE Then(paintAt([m EXCEPT !.paintQueue = Tail(@)], Head(m.paintQueue)),
            LAMBDA v : drain(v, k - 1))

\* a pass that is due on every tick
everyTick(t) == TRUE

gasDue(t) == t % 2 = 0
airDue(t) == t % 2 = 0
fireDue(t) == t % 4 = 0

afterPowder(t) ==
  IF gasDue(t) THEN "gas" ELSE IF airDue(t) THEN "air"
  ELSE IF fireDue(t) THEN "fire" ELSE "sleep"
afterGas(t) == IF airDue(t) THEN "air" ELSE IF fireDue(t) THEN "fire" ELSE "sleep"
afterAir(t) == IF fireDue(t) THEN "fire" ELSE "sleep"

\* a step that does not look at the pause flag
stepAnyway(m, dt) ==
  LET m1 == [m EXCEPT !.lastT = 1, !.tick = @ + 1, !.marked = {}, !.calls = {},
                      !.airRuns = 0, !.airCells = {}, !.passes = <<"strokes">>,
                      !.type0 = m.typeA]
  IN [drain(m1, Min(strokeLimit(dt), Len(m.paintQueue))) EXCEPT !.pc = "powder"]

\* step(), up to and including the stroke loop; dt is the frame time
stepBegin(m, dt) ==
  IF m.paused THEN [m EXCEPT !.lastT = 1, !.pc = "render"]
  ELSE
    LET m1 == [m EXCEPT !.lastT = 1, !.tick = @ + 1, !.marked = {}, !.calls = {},
                        !.airRuns = 0, !.airCells = {}, !.passes = <<"strokes">>,
                        !.type0 = m.typeA]
        strokes == Min(strokeLimit(dt), Len(m.paintQueue))
    IN [drain(m1, strokes) EXCEPT !.pc = "powder"]

stepPowder(m) ==
  [updatePowdersAndFluids(m) EXCEPT !.passes = Append(@, "powder"),
                                    !.pc = afterPowder(m.tick)]

\* a gas pass followed by a second powder pass
gasThenPowder(m) ==
  [updatePowdersAndFluids(updateGases(m)) EXCEPT
     !.passes = Append(Append(@, "gas"), "powder"), !.pc = afterGas(m.tick)]

stepGas(m) ==
  [updateGases(m) EXCEPT !.passes = Append(@, "gas"), !.pc = afterGas(m.tick)]

\* an air pass that is skipped when no chunk is active
airIfAwake(m) ==
  IF \E ci \in Chunks : m.cActive[ci] # 0
  THEN [updateAir(m) EXCEPT !.passes = Append(@, "air"), !.pc = afterAir(m.tick)]
  ELSE [m EXCEPT !.passes = Append(@, "air"), !.pc = afterAir(m.tick)]

\* updateEntities() has nothing to do, no entity is ever spawned here
stepAir(m) ==
  [updateAir(m) EXCEPT !.passes = Append(@, "air"), !.pc = afterAir(m.tick)]

stepFire(m) ==
  [updateFireAndLife(m) EXCEPT !.passes = Append(@, "fire"), !.pc = "sleep"]

stepSleep(m) ==
  LET q == [ci \in Chunks |-> IF ci \in m.marked THEN 0 ELSE m.quiet[ci] + 1]
      b == [ci \in Chunks |-> IF ci \in m.marked THEN 0 ELSE m.base[ci]]
  IN [sleepChunks(m) EXCEPT !.passes = Append(@, "sleep"), !.pc = "render",
                            !.quiet = q, !.base = b]

stepRender(m) == [render(m) EXCEPT !.pc = "idle"]

(* ------------------------------------------------------------ environment *)
\* frame times the scheduler may produce between two calls of step(), in ms
DtSet == {16, 40}

\* ticks after which the UI thread posts strokes, and those after which it
\* posts clear and togglePause
InputTicks == {1, 73}
ControlTicks == {73}

dot(mat, x, y) ==
  [fx |-> x, fy |-> y, tx |-> x, ty |-> y,
   st |-> [tool |-> "paint", material |-> mat, brush |-> 0]]

StrokeSet == { dot(WATER, 0, 1), dot(SPROUT, 1, 1), dot(SAND, 40, 0), dot(SMOKE, 41, 1) }

NoOther == [pc |-> "none"]

(* ---------------------------------------------------------------- actions *)
Starts(m) ==
  /\ typeA = m.typeA /\ dataA = m.dataA
  /\ cActive = m.cActive /\ cDirty = m.cDirty
  /\ cChanged = m.cChanged /\ cSleep = m.cSleep
  /\ pField = m.pField /\ vxField = m.vxField /\ vyField = m.vyField
  /\ seed = m.seed /\ tick = m.tick /\ paused = m.paused
  /\ paintQueue = m.paintQueue /\ lastT = m.lastT /\ turb = m.turb
  /\ ambVX = m.ambVX /\ ambVY = m.ambVY
  /\ globalVX = m.globalVX /\ globalVY = m.globalVY
  /\ pc = m.pc /\ marked = m.marked /\ calls = m.calls
  /\ airRuns = m.airRuns /\ airCells = m.airCells /\ passes = m.passes
  /\ type0 = m.type0 /\ quiet = m.quiet /\ base = m.base /\ whole = m.whole

Init ==
  /\ Starts(initBuffers)
  /\ sent = [strokes |-> 0, pauses |-> 0, clears |-> 0]
  /\ other = NoOther

CanSend == pc = "idle" /\ tick \in InputTicks
CanControl == pc = "idle" /\ tick \in ControlTicks

Stroke ==
  /\ CanSend /\ sent.strokes < MaxStrokes
  /\ \E e \in StrokeSet : \E m \in {onStroke(Machine, e)} : Becomes(m)
  /\ sent' = [sent EXCEPT !.strokes = @ + 1]
  /\ UNCHANGED other

Clear ==
  /\ CanControl /\ sent.clears < MaxClears
  /\ \E m \in {onClear(Machine)} : Becomes(m)
  /\ sent' = [sent EXCEPT !.clears = @ + 1]
  /\ UNCHANGED other

TogglePause ==
  /\ CanControl /\ sent.pauses < MaxPauses
  /\ \E m \in {onTogglePause(Machine)} : Becomes(m)
  /\ sent' = [sent EXCEPT !.pauses = @ + 1]
  /\ UNCHANGED other

StepBegin ==
  /\ pc = "idle" /\ whole
  /\ paused \/ tick < MaxTick
  /\ \E m \in { stepBegin(Machine, dt) : dt \in (IF lastT = 0 THEN {0} ELSE DtSet) } : Becomes(m)
  /\ UNCHANGED <<sent, other>>

StepPowder ==
  /\ pc = "powder"
  /\ \E m \in {stepPowder(Machine)} : Becomes(m)
  /\ UNCHANGED <<sent, other>>

StepGas ==
  /\ pc = "gas"
  /\ \E m \in {stepGas(Machine)} : Becomes(m)
  /\ UNCHANGED <<sent, other>>

StepAir ==
  /\ pc = "air"
  /\ \E m \in {stepAir(Machine)} : Becomes(m)
  /\ UNCHANGED <<sent, other>>

StepFire ==
  /\ pc = "fire"
  /\ \E m \in {stepFire(Machine)} : Becomes(m)
  /\ UNCHANGED <<sent, other>>

StepSleep ==
  /\ pc = "sleep"
  /\ \E m \in {stepSleep(Machine)} : Becomes(m)
  /\ UNCHANGED <<sent, other>>

StepRender ==
  /\ pc = "render"
  /\ \E m \in {stepRender(Machine)} : Becomes(m)
  /\ UNCHANGED <<sent, other>>


Next ==
  \/ Stroke \/ Clear \/ TogglePause
  \/ StepBegin \/ StepPowder \/ StepGas \/ StepAir \/ StepFire \/ StepSleep \/ StepRender

Spec == Init /\ [][Next]_vars

Whole == whole

(* ------------------------------------------------------- C1 wake on write *)
Touches(i) ==
  { cidx(cx, cy) : <<cx, cy>> \in
      { c \in (0..(cW - 1)) \X (0..(cH - 1)) :
          /\ Abs(c[1] - cellToChunkX(i % W)) <= 1
          /\ Abs(c[2] - cellToChunkY(i \div W)) <= 1 } }

EndOfTick == pc = "render" /\ ~paused

Awake(ci) == cActive[ci] = 1 /\ cDirty[ci] = 1 /\ cSleep[ci] = 0

\* C1 (as stated): when a cell's type changed during a tick, the chunk holding
\* it and every neighbouring chunk of the grid is active, dirty and has sleep
\* counter 0 at the end of that tick
C1_WakeOnWrite ==
  EndOfTick =>
    \A i \in Cells : typeA[i] # type0[i] => \A ci \in Touches(i) : Awake(ci)

C1_NoChange == ~(EndOfTick /\ \E i \in Cells : typeA[i] # type0[i])
C1_NoGrow == ~(EndOfTick /\ \E i \in Cells : typeA[i] = PLANT /\ type0[i] = SPROUT)

(* --------------------------------------------------- C2 sleep convergence *)
\* quiet[ci] counts the unpaused ticks since the last tick in which chunk ci
\* was marked (since init or clear if there was none); base[ci] is 1 while
\* the flags set by init or clear have not been followed by a mark
QuietTicks(ci) == quiet[ci] - base[ci]

\* C2 (as stated): after N consecutive ticks without a mark the counter is N,
\* the chunk is active while N <= 70 and inactive at the end of the 71st
C2_CounterIsQuietTicks ==
  EndOfTick =>
    \A ci \in Chunks :
      (quiet[ci] >= 1 /\ quiet[ci] <= SLEEP_LIMIT + 1) =>
        (cSleep[ci] = quiet[ci] /\ (cActive[ci] = 1 <=> quiet[ci] <= SLEEP_LIMIT))

\* C2: a mark during a tick leaves the chunk active with counter 0 at the end
\* of the tick; otherwise the counter is the number of mark-free ticks since
\* the last tick with a mark, and one less than the number of ticks since an
\* init or clear that no mark has followed, because the reconcile of the first
\* tick consumes the changed flag those handlers set; the chunk is active
\* while the counter is <= 70, turns inactive when it reaches 71 and stops
\* counting there
C2_SleepConvergence ==
  EndOfTick =>
    \A ci \in Chunks :
      /\ ci \in marked => (cSleep[ci] = 0 /\ cActive[ci] = 1)
      /\ ci \notin marked =>
           /\ cSleep[ci] = Min(QuietTicks(ci), SLEEP_LIMIT + 1)
           /\ cActive[ci] = 1 <=> QuietTicks(ci) <= SLEEP_LIMIT

\* a chunk has just fallen asleep, 71 ticks after the tick of its last mark
C2_FellAsleep ==
  /\ EndOfTick
  /\ \E ci \in Chunks :
       cActive[ci] = 0 /\ cSleep[ci] = SLEEP_LIMIT + 1 /\ base[ci] = 0 /\ quiet[ci] = SLEEP_LIMIT + 1

(* ------------------------------------------- C3 inactive chunks are skipped *)
\* the step functions invoked so far in this tick: <<pass, chunk, active flag
\* read when the scan reached the chunk>>
StepCalls == { c \in calls : c[1] \in {"powder", "gas", "fire"} }

\* the chunk was inactive when the current tick began
AsleepAtTickStart(ci) == pc \notin {"idle", "render"} /\ QuietTicks(ci) > SLEEP_LIMIT

\* C3: a step function is invoked only for cells of a chunk whose active flag
\* is set when the scan of the pass reaches it, and for a chunk that was
\* inactive when the tick began only after a markChunk call on it in this tick
C3_InactiveSkipped ==
  \A c \in StepCalls :
    /\ c[3] # 0
    /\ AsleepAtTickStart(c[2]) => c[2] \in marked

\* a pass has run over a sleeping chunk that holds water without invoking a
\* step function
C3_Skipped ==
  /\ pc = "gas" /\ StepCalls = {}
  /\ \E i \in Cells :
       /\ typeA[i] = WATER
       /\ cActive[cidx(cellToChunkX(i % W), cellToChunkY(i \div W))] = 0

\* a chunk that was asleep is processed again after a stroke marked it
C3_Reawakened ==
  \E c \in StepCalls : AsleepAtTickStart(c[2]) /\ c[2] \in marked

(* ------------------------------------------- C6 order within one tick *)
PassRank(p) ==
  CASE p = "strokes" -> 0 [] p = "powder" -> 1 [] p = "gas" -> 2 [] p = "air" -> 3
    [] p = "fire" -> 4 [] p = "sleep" -> 5

\* the step functions of pass p invoked so far in this tick
CallsOf(p) == { c \in calls : c[1] = p }

\* C6: within a tick the queued strokes are applied first, then the
\* powder/fluid steps, then the gas steps, then (when due) the fire/life
\* steps, and the sleep reconciliation comes last: the passes run so far are
\* in this order, each at most once, and a pass has invoked step functions
\* only if it has run
C6_TickOrder ==
  /\ \A j \in 1..Len(passes), k \in 1..Len(passes) :
       j < k => PassRank(passes[j]) < PassRank(passes[k])
  /\ pc # "idle" => Len(passes) > 0 /\ passes[1] = "strokes"
  /\ pc = "render" => passes[Len(passes)] = "sleep"
  /\ \A p \in {"powder", "gas", "fire"} :
       CallsOf(p) # {} => \E j \in 1..Len(passes) : passes[j] = p

\* a tick in which all passes ran, the powder and the gas pass with cells
\* to step
C6_FullTick ==
  /\ pc = "render" /\ Len(passes) = 6
  /\ CallsOf("powder") # {} /\ CallsOf("gas") # {}

\* a tick in which strokes were painted and the powder and gas passes then
\* stepped cells
C6_StrokesThenSteps ==
  /\ calls \ StepCalls # {}
  /\ CallsOf("powder") # {} /\ CallsOf("gas") # {}

(* ------------------------------------------------------ C7 pass cadence *)
Ran(p) == \E j \in 1..Len(passes) : passes[j] = p

\* the passes of an unpaused tick are complete
TickRun == pc = "render" /\ ~paused

\* C7 (as stated): on every unpaused tick the powder/fluid pass, the gas pass
\* and the air solver run; the fire/life pass runs exactly on every 4th tick
C7_EveryTick ==
  TickRun => /\ Ran("powder") /\ Ran("gas") /\ Ran("air")
             /\ Ran("fire") <=> tick % 4 = 0

\* C7: on every unpaused tick the powder/fluid pass runs; the gas pass and
\* the air solver run exactly on the ticks with an even number, the air
\* solver once; the fire/life pass runs exactly on every 4th tick
C7_Cadence ==
  TickRun => /\ Ran("powder")
             /\ Ran("gas") <=> tick % 2 = 0
             /\ Ran("air") <=> tick % 2 = 0
             /\ airRuns = (IF tick % 2 = 0 THEN 1 ELSE 0)
             /\ Ran("fire") <=> tick % 4 = 0

\* an odd tick has ended with smoke in the grid and without a gas pass
C7_OddTick ==
  /\ TickRun /\ tick % 2 = 1 /\ passes = <<"strokes", "powder", "sleep">>
  /\ \E i \in Cells : typeA[i] = SMOKE

(* ------------------------------------- C8 air solver and chunk scheduler *)
\* C8: on every unpaused tick with an even number updateAir runs exactly once
\* and updates every coarse cell, whatever the chunks' active flags are; on
\* no other tick does it run
C8_AirOncePerEligibleTick ==
  /\ airRuns \in {0, 1}
  /\ airRuns = 1 => tick % 2 = 0 /\ airCells = AirCells /\ Ran("air")
  /\ airRuns = 0 => airCells = {}
  /\ TickRun => (airRuns = 1 <=> tick % 2 = 0)

\* the solver has run in a tick throughout which every chunk was inactive
C8_AllAsleep ==
  /\ TickRun /\ tick % 2 = 0 /\ airRuns = 1 /\ airCells = AirCells
  /\ \A ci \in Chunks : cActive[ci] = 0 /\ QuietTicks(ci) > SLEEP_LIMIT + 1

(* ------------------------------------------------- C9 pause keeps state *)
\* what the pause is specified to preserve
Preserved == <<typeA, dataA, pField, vxField, vyField, cActive, cSleep, tick, paintQueue>>

\* C9: while the pause flag is set, a step of step() (any step in which no
\* message arrives) leaves the grid, the air fields, every chunk's active flag
\* and sleep counter, the tick counter and the paint queue unchanged; and
\* togglePause changes the pause flag and none of these
C9_PausePreserves ==
  [][ /\ (paused /\ sent' = sent) => (UNCHANGED Preserved /\ paused')
      /\ sent'.pauses # sent.pauses => (UNCHANGED Preserved /\ paused' = ~paused)
    ]_vars

\* step() has been invoked under pause with a stroke waiting in the queue
C9_SteppedWhilePaused == paused /\ pc = "render" /\ paintQueue # <<>>

\* after two togglePause messages the simulation ticks again
C9_Resumed == ~paused /\ sent.pauses = 2 /\ tick > 73

(* ------------------------------------------------- the input handlers *)
\* A second environment: the UI thread posts strokes with coordinates outside
\* the viewport, unknown tools and material ids, a clear and a resize, over a
\* few ticks, with frame times on both sides of the throttle's thresholds.
InMaxTick == 4
\* frame times of the tick that follows the strokes, and of later ticks
InDtSet == {16, 22, 25, 30, 40}
InDtLater == {16, 40}

stroke(tool, mat, strength, brush, fx, fy, tx, ty) ==
  [fx |-> fx, fy |-> fy, tx |-> tx, ty |-> ty,
   st |-> [tool |-> tool, material |-> mat, strength |-> strength, brush |-> brush]]

\* (x * W) | 0 of the endpoints; 99 is no material id, "bogus" no tool
InStrokes ==
  << stroke("paint", SAND, 0, 0, -5, -3, 10, 0),
     stroke("paint", 99, 0, 0, 5, 1, 5, 1),
     stroke("bogus", WATER, 0, 1, 3, 0, 3, 0),
     stroke("temp", AIR, 5, 1, 200, 9, 200, 9),
     stroke("paint", WATER, 0, 2, 70, 1, 70, -4) >>

Observed(dt) == [pc |-> "obs", dt |-> dt, queued |-> Len(paintQueue)]

InInit ==
  /\ Starts(initBuffers)
  /\ sent = [last |-> 0, clears |-> 0, resizes |-> 0]
  /\ other = [pc |-> "obs", dt |-> 0, queued |-> 0]

\* strokes are posted after the first tick, in the order of InStrokes
InStroke ==
  /\ pc = "idle" /\ tick = 1
  /\ \E k \in (sent.last + 1)..Len(InStrokes) :
       /\ \E m \in {onStroke(Machine, InStrokes[k])} : Becomes(m)
       /\ sent' = [sent EXCEPT !.last = k]
  /\ UNCHANGED other

InClear ==
  /\ pc = "idle" /\ tick = 2 /\ sent.clears = 0
  /\ \E m \in {onClear(Machine)} : Becomes(m)
  /\ sent' = [sent EXCEPT !.clears = 1]
  /\ UNCHANGED other

InResizeSim ==
  /\ pc = "idle" /\ tick = 2 /\ sent.resizes = 0
  /\ \E m \in {onResizeSim(Machine)} : Becomes(m)
  /\ sent' = [sent EXCEPT !.resizes = 1]
  /\ UNCHANGED other

InStepBegin ==
  /\ pc = "idle" /\ whole /\ tick < InMaxTick
  /\ \E dt \in (IF lastT = 0 THEN {0} ELSE IF tick = 1 THEN InDtSet ELSE InDtLater) :
       /\ \E m \in {stepBegin(Machine, dt)} : Becomes(m)
       /\ other' = Observed(dt)
  /\ UNCHANGED sent

InNext ==
  \/ InStroke \/ InClear \/ InResizeSim \/ InStepBegin
  \/ StepPowder \/ StepGas \/ StepAir \/ StepFire \/ StepSleep \/ StepRender

SpecInput == InInit /\ [][InNext]_vars

(* ------------------------------------------------ C11 clear re-arms *)
AllArmed == \A ci \in Chunks : cActive[ci] = 1 /\ cDirty[ci] = 1 /\ cSleep[ci] = 0

AllBlank ==
  /\ \A i \in Cells : typeA[i] = AIR /\ dataA[i] = 0
  /\ \A a \in AirCells : pField[a] = 0 /\ vxField[a] = 0 /\ vyField[a] = 0

\* C11: right after a 'clear' message every cell is AIR with aux 0, every
\* coarse air cell has pressure 0 and velocity (0,0) and every chunk is active
\* and dirty with sleep counter 0; right after init and after resizeSim every
\* chunk is active and dirty with sleep counter 0
C11_ClearRearms ==
  /\ AllArmed
  /\ [][ /\ sent'.clears # sent.clears => AllBlank' /\ AllArmed'
         /\ sent'.resizes # sent.resizes => AllArmed' ]_vars

\* a clear has just been handled, after the five strokes were painted
C11_Cleared ==
  /\ pc = "idle" /\ tick = 2 /\ sent.last = 5 /\ sent.clears = 1 /\ sent.resizes = 0
  /\ AllBlank /\ AllArmed

(* ------------------------------------------ C35 clear keeps the queue *)
\* the strokes of a sequence applied in order
RECURSIVE paintAll(_, _)
paintAll(m, ss) ==
  IF ss = <<>> THEN m ELSE Then(paintAt(m, Head(ss)), LAMBDA v : paintAll(v, Tail(ss)))

\* C35: a 'clear' message leaves the paint queue as it is; the strokes still
\* queued are taken from the head of the queue on the following ticks and
\* applied in their order
C35_ClearKeepsQueue ==
  [][ /\ sent'.clears # sent.clears => (paintQueue' = paintQueue /\ AllBlank')
      /\ (pc = "idle" /\ pc' = "powder") =>
           \E k \in {Len(paintQueue) - Len(paintQueue')} :
             /\ k >= 0 /\ (paintQueue # <<>> => k > 0)
             /\ paintQueue' = SubSeq(paintQueue, k + 1, Len(paintQueue))
             /\ \E m \in {paintAll(Machine, SubSeq(paintQueue, 1, k))} :
                  typeA' = m.typeA /\ dataA' = m.dataA ]_vars

\* strokes posted before a clear have been applied in the tick after it and
\* have put material into the cleared world
C35_PaintedAfterClear ==
  /\ pc = "powder" /\ tick = 3 /\ sent.clears = 1 /\ sent.resizes = 0
  /\ other.queued > 0 /\ \E i \in Cells : typeA[i] # AIR

(* ------------------------------------------- C12 out-of-range strokes *)
\* the coordinates drawLine plotted and stamp was called with in this tick
Plotted == { <<c[2], c[3]>> : c \in { d \in calls : d[1] = "plot" } }
Stamped == { <<c[2], c[3]>> : c \in { d \in calls : d[1] = "stamp" } }

\* targets outside the grid, next to a cell inside it
OutTargets ==
  { q \in { <<x, y, x + d[1], y + d[2]>> :
              x \in 0..(W - 1), y \in 0..(H - 1), d \in ((-1)..1) \X ((-1)..1) } :
      ~inb(q[3], q[4]) }

SwapsNothing(m) ==
  \A q \in OutTargets :
    trySwapIfHeavier(m, q[1], q[2], q[3], q[4]) = [w |-> m, r |-> FALSE]

\* C12: a stroke with endpoints outside the viewport is applied, not
\* rejected; every cell its line plots and every cell its brush stamps lies
\* in [0,W-1]x[0,H-1], and the grid arrays keep their extent; trySwapIfHeavier
\* towards a target outside the grid returns false and changes nothing
C12_StrokesTotal ==
  /\ \A c \in Plotted \cup Stamped : inb(c[1], c[2])
  /\ DOMAIN typeA = Cells /\ DOMAIN dataA = Cells
  /\ (pc = "powder" /\ other.queued > 0) => Plotted # {}
  /\ \A m \in {Machine} : SwapsNothing(m)

\* the strokes from (-5,-3) and at (200,9) have just been applied: their lines
\* were plotted from the clamped endpoints and the sand line is in the grid
C12_ClampedStroke ==
  /\ pc = "powder" /\ other.queued >= 3
  /\ <<0, 0>> \in Plotted /\ <<W - 1, H - 1>> \in Plotted
  /\ typeA[idx(10, 0)] = SAND /\ typeA[idx(0, 0)] = SAND

(* ------------------------------------------------------ C13 invalid ids *)
\* C13: in every reachable state every cell's type is one of the defined
\* material ids (a paint stroke with another id writes nothing)
C13_DefinedIds == \A i \in Cells : typeA[i] \in Materials

\* a stroke whose tool is no known tool, applied alone, changes no cell, no
\* air value and no chunk flag
C13_UnknownToolInert ==
  [][ (pc = "idle" /\ pc' = "powder" /\ paintQueue = <<InStrokes[3]>>) =>
        /\ paintQueue' = <<>>
        /\ UNCHANGED <<typeA, dataA, pField, vxField, vyField,
                       cActive, cDirty, cChanged, cSleep>> ]_vars

(* --------------------------------------------------- C14 input throttle *)
\* the limit the throttle is specified to apply for a frame time of dt ms
Limit(dt) == IF dt <= 22 THEN 3 ELSE IF dt <= 30 THEN 2 ELSE 1

\* the passes of tick t, in order
PassesOf(t) ==
  <<"strokes", "powder">> \o (IF t % 2 = 0 THEN <<"gas", "air">> ELSE <<>>)
    \o (IF t % 4 = 0 THEN <<"fire">> ELSE <<>>) \o <<"sleep">>

\* C14: an unpaused tick takes min(queue length, L) strokes from the queue,
\* L = 3 for dt <= 22, 2 for 22 < dt <= 30, 1 for dt > 30; the passes the tick
\* runs are those of its tick number, whatever dt was
C14_Throttle ==
  /\ pc = "powder" =>
       Len(paintQueue) = other.queued - Min(other.queued, Limit(other.dt))
  /\ pc = "render" => passes = PassesOf(tick)

\* a slow frame with five strokes queued took one of them
C14_SlowFrame ==
  pc = "powder" /\ other.dt = 40 /\ other.queued = 5 /\ Len(paintQueue) = 4

(* ------------------------------------------------ the marking functions *)
\* markChunk and markCellAndNeighbors as functions of the four flag arrays, on
\* a grid of MarkW by MarkH chunks so that a chunk has all eight neighbours.
MarkW == 3
MarkH == 3
MarkChunks == 0..(MarkW * MarkH - 1)

\* flags of a chunk: asleep, counting towards sleep, just marked
Asleep == [a |-> 0, d |-> 0, c |-> 0, s |-> SLEEP_LIMIT + 1]
Counting == [a |-> 1, d |-> 0, c |-> 0, s |-> 5]
Marked == [a |-> 1, d |-> 1, c |-> 1, s |-> 0]
Conds == {Asleep, Counting, Marked}

Flags ==
  [cActive |-> cActive, cDirty |-> cDirty, cChanged |-> cChanged, cSleep |-> cSleep,
   marked |-> {}]

FlagsBecome(f) ==
  /\ cActive' = f.cActive /\ cDirty' = f.cDirty
  /\ cChanged' = f.cChanged /\ cSleep' = f.cSleep /\ marked' = f.marked

\* cell coordinates tried: corners and edges of chunks, and outside the grid
MarkCoords == {0, CHUNK - 1, CHUNK, 2 * CHUNK - 1, 2 * CHUNK, MarkW * CHUNK - 1}

MarkInit ==
  /\ \E all \in Conds, one \in Conds, k \in MarkChunks :
       /\ cActive = [ci \in MarkChunks |-> IF ci = k THEN one.a ELSE all.a]
       /\ cDirty = [ci \in MarkChunks |-> IF ci = k THEN one.d ELSE all.d]
       /\ cChanged = [ci \in MarkChunks |-> IF ci = k THEN one.c ELSE all.c]
       /\ cSleep = [ci \in MarkChunks |-> IF ci = k THEN one.s ELSE all.s]
  /\ marked = {} /\ other = [pc |-> "mark", op |-> "none"]
  /\ typeA = <<>> /\ dataA = <<>> /\ pField = <<>> /\ vxField = <<>> /\ vyField = <<>>
  /\ seed = SEED0 /\ tick = 0 /\ paused = FALSE /\ paintQueue = <<>> /\ lastT = 0
  /\ turb = turbDefault /\ ambVX = 0 /\ ambVY = 0 /\ globalVX = 0 /\ globalVY = 0
  /\ pc = "idle" /\ calls = {} /\ airRuns = 0 /\ airCells = {}
  /\ passes = <<>> /\ type0 = <<>> /\ quiet = <<>> /\ base = <<>> /\ whole = TRUE
  /\ sent = <<>>

MarkRest ==
  UNCHANGED <<typeA, dataA, pField, vxField, vyField, seed, tick, paused, paintQueue,
              lastT, turb, ambVX, ambVY, globalVX, globalVY, pc, calls, airRuns, airCells,
              passes, type0, quiet, base, whole, sent>>

MarkChunkOp ==
  /\ other.op = "none"
  /\ \E cx \in (-1)..MarkW, cy \in (-1)..MarkH :
       /\ \E f \in {markChunkIn(Flags, MarkW, MarkH, cx, cy)} : FlagsBecome(f)
       /\ other' = [pc |-> "mark", op |-> "chunk", x |-> cx, y |-> cy, before |-> Flags]
  /\ MarkRest

MarkCellOp ==
  /\ other.op = "none"
  /\ \E x \in MarkCoords, y \in MarkCoords :
       /\ \E f \in {markCellAndNeighborsIn(Flags, MarkW, MarkH, x, y)} : FlagsBecome(f)
       /\ other' = [pc |-> "mark", op |-> "cell", x |-> x, y |-> y, before |-> Flags]
  /\ MarkRest

MarkNext == MarkChunkOp \/ MarkCellOp

SpecMark == MarkInit /\ [][MarkNext]_vars

(* --------------------------------------------------- C15 marking contract *)
InRange(cx, cy) == cx >= 0 /\ cy >= 0 /\ cx < MarkW /\ cy < MarkH

FlagsAt(f, ci) == <<f.cActive[ci], f.cDirty[ci], f.cChanged[ci], f.cSleep[ci]>>

IsMarkedNow(ci) == cActive[ci] = 1 /\ cDirty[ci] = 1 /\ cSleep[ci] = 0

\* the chunk owning cell (x, y) and its neighbours inside the grid
Around(x, y) ==
  { cx + cy * MarkW : <<cx, cy>> \in
      { c \in (0..(MarkW - 1)) \X (0..(MarkH - 1)) :
          Abs(c[1] - (x \div CHUNK)) <= 1 /\ Abs(c[2] - (y \div CHUNK)) <= 1 } }

\* C15: markChunk(cx,cy) on a chunk of the grid sets that chunk active = 1,
\* dirty = 1, sleep counter = 0 and changes no other chunk, and on a chunk
\* outside the grid it changes nothing; markCellAndNeighbors(x,y) applies
\* markChunk to the chunk owning (x,y) and its 8 neighbours and to no other
C15_MarkContract ==
  /\ other.op = "chunk" =>
       /\ InRange(other.x, other.y) =>
            /\ IsMarkedNow(other.x + other.y * MarkW)
            /\ marked = {other.x + other.y * MarkW}
       /\ ~InRange(other.x, other.y) => marked = {}
       /\ \A ci \in MarkChunks :
            (~InRange(other.x, other.y) \/ ci # other.x + other.y * MarkW) =>
              FlagsAt(Flags, ci) = FlagsAt(other.before, ci)
  /\ other.op = "cell" =>
       /\ marked = Around(other.x, other.y)
       /\ \A ci \in MarkChunks :
            IF ci \in Around(other.x, other.y) THEN IsMarkedNow(ci)
            ELSE FlagsAt(Flags, ci) = FlagsAt(other.before, ci)

\* a cell of the middle chunk was marked while everything slept: all nine
\* chunks woke up
C15_WokeNine ==
  /\ other.op = "cell" /\ other.x = CHUNK /\ other.y = 2 * CHUNK - 1
  /\ \A ci \in MarkChunks : other.before.cActive[ci] = 0 /\ IsMarkedNow(ci)

\* markChunk on a sleeping chunk next to the border woke that chunk only
C15_WokeOne ==
  /\ other.op = "chunk" /\ other.x = MarkW - 1 /\ other.y = 0
  /\ other.before.cActive[MarkW - 1] = 0 /\ IsMarkedNow(MarkW - 1)
  /\ \E ci \in MarkChunks : cActive[ci] = 0

(* ------------------------------------------------------ settling sand *)
\* A third environment: an optional clear, then one block of SAND painted row
\* by row (with a STONE ledge under it in one plan), then ticks with no
\* further input. The air is at rest, so every grain takes the no-wind branch.
SandMaxTick == 8

row(mat, y, x0, x1) == stroke("paint", mat, 0, 0, x0, y, x1, y)

\* the strokes of each plan and the block they paint: columns x0..x1, rows
\* 0..h-1
SandPlans ==
  << [x0 |-> 30, x1 |-> 33, h |-> 1, strokes |-> <<row(SAND, 0, 30, 33)>>],
     [x0 |-> 30, x1 |-> 33, h |-> 2,
      strokes |-> <<row(SAND, 0, 30, 33), row(SAND, 1, 30, 33)>>],
     [x0 |-> 0, x1 |-> 2, h |-> 2,
      strokes |-> <<row(SAND, 0, 0, 2), row(SAND, 1, 0, 2)>>],
     [x0 |-> 30, x1 |-> 33, h |-> 2,
      strokes |-> <<row(STONE, H - 1, 31, 32), row(SAND, 0, 30, 33), row(SAND, 1, 30, 33)>>] >>

SandInit ==
  /\ Starts(initBuffers)
  /\ sent = [clears |-> 0, plan |-> 0, posted |-> 0]
  /\ other = NoOther

SandClear ==
  /\ pc = "idle" /\ tick = 0 /\ sent.clears = 0 /\ sent.plan = 0
  /\ \E m \in {onClear(Machine)} : Becomes(m)
  /\ sent' = [sent EXCEPT !.clears = 1]
  /\ UNCHANGED other

SandStroke ==
  /\ pc = "idle" /\ tick = 0
  /\ \E k \in 1..Len(SandPlans) :
       /\ sent.plan \in {0, k}
       /\ sent.posted < Len(SandPlans[k].strokes)
       /\ \E m \in {onStroke(Machine, SandPlans[k].strokes[sent.posted + 1])} : Becomes(m)
       /\ sent' = [sent EXCEPT !.plan = k, !.posted = @ + 1]
  /\ UNCHANGED other

SandStepBegin ==
  /\ pc = "idle" /\ whole /\ tick < SandMaxTick
  /\ \E dt \in (IF lastT = 0 THEN {0} ELSE {16}) :
       \E m \in {stepBegin(Machine, dt)} : Becomes(m)
  /\ UNCHANGED <<sent, other>>

SandTick ==
  \/ SandStepBegin \/ StepPowder \/ StepGas \/ StepAir \/ StepFire \/ StepSleep \/ StepRender

SandNext == SandClear \/ SandStroke \/ SandTick

\* the frame loop keeps calling step(): whenever a phase of a tick is due, the
\* position in the tick eventually moves on (only the steps of SandTick change pc)
Phases == {"idle", "powder", "gas", "air", "fire", "sleep", "render"}

SandAdvance ==
  /\ pc # "idle" \/ (whole /\ tick < SandMaxTick)
  /\ pc' \in Phases \ {pc}

SpecSand == SandInit /\ [][SandNext]_vars /\ WF_pc(SandAdvance)

(* ---------------------------------------------------- C16 sand settling *)
SandCells == { i \in Cells : typeA[i] = SAND }

\* the plan's strokes have all been posted and painted
BlockPainted ==
  /\ sent.plan # 0 /\ tick >= 1 /\ paintQueue = <<>>
  /\ sent.posted = Len(SandPlans[sent.plan].strokes)

\* no empty cell below or diagonally below cell i
Resting(i) ==
  \A dx \in {-1, 0, 1} :
    inb((i % W) + dx, (i \div W) + 1) => typeA[idx((i % W) + dx, (i \div W) + 1)] # AIR

Settled == paintQueue = <<>> /\ \A i \in SandCells : Resting(i)

InPaintedColumns ==
  \A i \in SandCells :
    (i % W) >= SandPlans[sent.plan].x0 /\ (i % W) <= SandPlans[sent.plan].x1

\* C16 (as stated): once the painted sand is at rest it lies within the
\* columns in which it was painted
C16_RestsInRange == (BlockPainted /\ Settled) => InPaintedColumns

\* C16: with the air at rest a painted block of SAND eventually reaches, and
\* stays in, a state in which every grain rests on the floor, on a solid or on
\* sand with no empty cell diagonally below it, and in such a state no tick
\* changes a cell
C16_SandSettles ==
  /\ <>[]Settled
  /\ [][ (Settled /\ sent' = sent) => (typeA' = typeA /\ dataA' = dataA) ]_vars

\* the block of two rows painted into the cleared world is at rest, spread
\* over more columns than it was painted in
C16_PileAtRest ==
  /\ sent.clears = 1 /\ sent.plan = 2 /\ BlockPainted /\ Settled /\ pc = "idle"
  /\ ~InPaintedColumns
  /\ \E i \in SandCells : i \div W = H - 1

(* ----------------------------------------------- C17 conservation of sand *)
PlannedSand == (SandPlans[sent.plan].x1 - SandPlans[sent.plan].x0 + 1) * SandPlans[sent.plan].h

CountOf(p) == Cardinality({ i \in Cells : typeA[i] = p[1] /\ dataA[i] = p[2] })

\* the three cells a grain at rest in still air can move to
FallTargets(i) ==
  { q \in { <<(i % W) + dx, (i \div W) + 1>> : dx \in {-1, 0, 1} } : inb(q[1], q[2]) }

\* swapAt exchanges type and aux of the two cells and touches no other cell
SwapExchanges(m) ==
  \A i \in SandCells : \A q \in FallTargets(i) :
    \A r \in {swapAt(m, i % W, i \div W, q[1], q[2])} :
      /\ r.typeA = [m.typeA EXCEPT ![i] = m.typeA[idx(q[1], q[2])],
                                   ![idx(q[1], q[2])] = m.typeA[i]]
      /\ r.dataA = [m.dataA EXCEPT ![i] = m.dataA[idx(q[1], q[2])],
                                   ![idx(q[1], q[2])] = m.dataA[i]]

\* C17: in a world of SAND, AIR and solids that receives no further strokes
\* the number of SAND cells stays what was painted; a pass only permutes the
\* (type, aux) pairs of the cells, and swapAt exchanges type and aux of exactly
\* two cells
C17_SandConserved ==
  /\ [](BlockPainted => Cardinality(SandCells) = PlannedSand)
  /\ [](\A m \in {Machine} : SwapExchanges(m))
  /\ [][ (sent' = sent /\ paintQueue = <<>>) =>
           \A p \in { <<typeA[i], dataA[i]>> : i \in Cells } : CountOf(p)' = CountOf(p)
       ]_<<typeA, dataA, paintQueue>>

\* grains have fallen to the floor and slid sideways off the block
C17_SandMoved ==
  /\ sent.clears = 1 /\ BlockPainted /\ tick >= 2
  /\ \E i \in SandCells : i \div W = H - 1 /\ (i % W) < SandPlans[sent.plan].x0

(* ------------------------------------------------ fire next to wood *)
\* One FIRE cell at (FireX, FireY) and one WOOD cell on one of its four sides
\* are painted into the cleared world, which then ticks up to its first slow
\* pass.  The generator is never re-seeded, so it stands where the draws made
\* before the clear left it: the seed is SEED0 advanced by one of FireDraws
\* draws.
FireMaxTick == 4
FireX == 31
FireY == 1
FireDraws == {0, 232, 598, 695}

FireSides == << <<-1, 0>>, <<1, 0>>, <<0, -1>>, <<0, 1>> >>

FirePlan(k) ==
  << dot(WOOD, FireX + FireSides[k][1], FireY + FireSides[k][2]), dot(FIRE, FireX, FireY) >>

WoodCell == idx(FireX + FireSides[sent.plan][1], FireY + FireSides[sent.plan][2])

\* the seed after n draws
RECURSIVE rndJump(_, _)
rndJump(s, n) ==
  IF n = 0 THEN s
  ELSE IF n = 1 THEN rndNext(s)
  ELSE Then(rndJump(s, n \div 2), LAMBDA h : rndJump(h, n - n \div 2))

FireInit ==
  /\ \E k \in FireDraws :
       /\ Starts([onClear(initBuffers) EXCEPT !.seed = rndJump(SEED0, k)])
       /\ sent = [plan |-> 0, posted |-> 0, draws |-> k]
  /\ other = NoOther

FireStroke ==
  /\ pc = "idle" /\ tick = 0
  /\ \E k \in 1..Len(FireSides) :
       /\ sent.plan \in {0, k}
       /\ sent.posted < Len(FirePlan(k))
       /\ \E m \in {onStroke(Machine, FirePlan(k)[sent.posted + 1])} : Becomes(m)
       /\ sent' = [sent EXCEPT !.plan = k, !.posted = @ + 1]
  /\ UNCHANGED other

FireStepBegin ==
  /\ pc = "idle" /\ whole /\ tick < FireMaxTick
  /\ sent.posted = 2
  /\ \E dt \in (IF lastT = 0 THEN {0} ELSE {16}) :
       \E m \in {stepBegin(Machine, dt)} : Becomes(m)
  /\ UNCHANGED <<sent, other>>

FireNext ==
  \/ FireStroke \/ FireStepBegin
  \/ StepPowder \/ StepGas \/ StepAir \/ StepFire \/ StepSleep \/ StepRender

SpecFire == FireInit /\ [][FireNext]_vars

(* ------------------------------------------------ C18 ignition result *)
\* the slow pass of this tick has just ended
SlowPassDone == pc = "sleep" /\ sent.plan # 0 /\ passes[Len(passes)] = "fire"

\* the wood cell was ignited by the pass that just ended
Ignited == SlowPassDone /\ typeA[WoodCell] # WOOD

\* C18 (as stated): at the end of the slow pass that ignited it the cell is
\* FIRE and its aux lies in 60..149, on whichever side of the fire it lies
C18_IgnitedInRange ==
  Ignited => (typeA[WoodCell] = FIRE /\ dataA[WoodCell] \in 60..149)

\* what the code does: the pass scans rows top-down and each row from the
\* left, so a cell ignited to the right of or below the fire is itself visited
\* later in the same pass and its timer is already one lower
C18_IgnitedTimer ==
  /\ (sent.plan # 0 /\ sent.posted = 2 /\ tick >= 1 /\ pc # "sleep" /\ pc # "render" /\ pc # "idle")
       => typeA[WoodCell] = WOOD
  /\ Ignited =>
       /\ typeA[WoodCell] = FIRE
       /\ sent.plan \in {1, 3} => dataA[WoodCell] \in 60..149
       /\ sent.plan \in {2, 4} => dataA[WoodCell] \in 59..148

C18_IgnitedSide(k) == Ignited /\ sent.plan = k

C18_IgnitedLeft == C18_IgnitedSide(1)
C18_IgnitedRight == C18_IgnitedSide(2)
C18_IgnitedAbove == C18_IgnitedSide(3)
C18_IgnitedBelow == C18_IgnitedSide(4)

(* ------------------------------------------------ a seed on a bed of dirt *)
\* Into the cleared world a bed of three DIRT cells is painted on the floor and
\* a SEED on its middle cell.  After the first slow pass, in which the seed
\* gains germination progress, the bed may be painted over with STONE, which
\* takes the seed's germination conditions away for good.
SeedMaxTick == 20
SeedX == 31
SeedDraws == {0, 150}

SeedCell == idx(SeedX, H - 2)

BedOf(mat) ==
  [fx |-> SeedX - 1, fy |-> H - 1, tx |-> SeedX + 1, ty |-> H - 1,
   st |-> [tool |-> "paint", material |-> mat, brush |-> 0]]

SeedPlan == << BedOf(DIRT), dot(SEED, SeedX, H - 2) >>

SeedInit ==
  /\ \E k \in SeedDraws :
       /\ Starts([onClear(initBuffers) EXCEPT !.seed = rndJump(SEED0, k)])
       /\ sent = [posted |-> 0, removed |-> FALSE, draws |-> k]
  /\ other = NoOther

SeedStroke ==
  /\ pc = "idle" /\ tick = 0 /\ sent.posted < Len(SeedPlan)
  /\ \E m \in {onStroke(Machine, SeedPlan[sent.posted + 1])} : Becomes(m)
  /\ sent' = [sent EXCEPT !.posted = @ + 1]
  /\ UNCHANGED other

\* the bed is replaced by stone once the seed has made progress
SeedRemoveBed ==
  /\ pc = "idle" /\ tick = 4 /\ ~sent.removed
  /\ typeA[SeedCell] = SEED /\ dataA[SeedCell] > 0
  /\ \E m \in {onStroke(Machine, BedOf(STONE))} : Becomes(m)
  /\ sent' = [sent EXCEPT !.removed = TRUE]
  /\ UNCHANGED other

SeedStepBegin ==
  /\ pc = "idle" /\ whole /\ tick < SeedMaxTick
  /\ sent.posted = Len(SeedPlan)
  /\ \E dt \in (IF lastT = 0 THEN {0} ELSE {16}) :
       \E m \in {stepBegin(Machine, dt)} : Becomes(m)
  /\ UNCHANGED <<sent, other>>

SeedNext ==
  \/ SeedStroke \/ SeedRemoveBed \/ SeedStepBegin
  \/ StepPowder \/ StepGas \/ StepAir \/ StepFire \/ StepSleep \/ StepRender

\* the frame loop keeps ticking
SeedAdvance ==
  /\ pc # "idle" \/ (whole /\ tick < SeedMaxTick /\ sent.posted = Len(SeedPlan))
  /\ pc' \in Phases \ {pc}

SpecSeed == SeedInit /\ [][SeedNext]_vars /\ WF_pc(SeedAdvance)

(* ------------------------------------------------------ C19 seed decay *)
\* the seed made progress and its bed has been replaced by stone
SeedLost == sent.removed /\ paintQueue = <<>> /\ typeA[idx(SeedX, H - 1)] = STONE

SeedDead == typeA[SeedCell] = ASH

\* C19 (as stated): a SEED that has gained germination progress and then loses
\* its germination conditions for good eventually becomes ASH while the
\* simulation keeps ticking
C19_SeedDecays == SeedLost ~> SeedDead

\* the seed has lost its progress and its flag without dying
SeedSpent == SeedLost /\ typeA[SeedCell] = SEED /\ dataA[SeedCell] = 0

\* C19, what the code does: the death roll needs aux > 0 before the visit and
\* progress 0 after it, which happens in one slow pass only; a seed that
\* survives that roll has aux 0 and no later step changes it
C19_SpentSeedStays ==
  /\ [][ SeedSpent => (typeA'[SeedCell] = SEED /\ dataA'[SeedCell] = 0) ]_vars
  /\ [][ (SeedLost /\ ~SeedDead /\ SeedDead') =>
           (pc = "fire" /\ tick % 16 = 0 /\ dataA[SeedCell] = 1) ]_vars

C19_SeedIsSpent == SeedSpent /\ pc = "idle" /\ tick = SeedMaxTick

C19_SeedDied == SeedLost /\ SeedDead

(* ------------------------------------------- the obstacle phase, cell by cell *)
\* Phase 6 of updateAir is followed through its loop, one coarse cell per
\* step, from the state in which the phase starts: STONE on some of the four
\* sample cells of one or two coarse cells, and a uniform wind left in the
\* velocity fields.  sent.seen counts the coarse cells visited; other holds
\* the locals of updateAir: solidField and the dominant wind.
LeeObstacle == 8
LeeSecond == 3

\* the four cells updateSolidField samples in coarse cell c of row 0
sampleCells(c) ==
  << idx(clamp(c * AIR_SCALE + 1, 0, W - 1), clamp(1, 0, H - 1)),
     idx(clamp(c * AIR_SCALE + AIR_SCALE - 2, 0, W - 1), clamp(1, 0, H - 1)),
     idx(clamp(c * AIR_SCALE + 1, 0, W - 1), clamp(AIR_SCALE - 2, 0, H - 1)),
     idx(clamp(c * AIR_SCALE + AIR_SCALE - 2, 0, W - 1), clamp(AIR_SCALE - 2, 0, H - 1)) >>

\* k sample cells of coarse cell LeeObstacle and k2 of coarse cell LeeSecond
stones(k, k2) ==
  { sampleCells(LeeObstacle)[j] : j \in 1..k } \cup { sampleCells(LeeSecond)[j] : j \in 1..k2 }

LeeVX == {-24000, -1000, 300, 1000, 24000}
LeeVY == {0, 500}

LeeStart(k, k2, vx, vy) ==
  [onClear(initBuffers) EXCEPT
     !.typeA = [i \in Cells |-> IF i \in stones(k, k2) THEN STONE ELSE AIR],
     !.vxField = [i \in AirCells |-> vx],
     !.vyField = [i \in AirCells |-> vy],
     !.tick = 2, !.pc = "air"]

LeeInit ==
  \E k \in 1..4, k2 \in {0, 2}, vx \in LeeVX, vy \in LeeVY :
    \E m \in {LeeStart(k, k2, vx, vy)} :
      /\ Starts(m)
      /\ sent = [seen |-> 0]
      /\ other = [solid |-> updateSolidField(m), wind |-> dominantWind(m)]

LeeVisit ==
  /\ pc = "air" /\ sent.seen < aN
  /\ \E m \in {airVisit(Machine, sent.seen, other.solid,
                        other.wind.wdx, other.wind.wdy, other.wind.strong)} : Becomes(m)
  /\ sent' = [seen |-> sent.seen + 1]
  /\ UNCHANGED other

LeeNext == LeeVisit

SpecLee == LeeInit /\ [][LeeNext]_vars

(* ------------------------------------------------- C20 lee-zone attenuation *)
\* coarse cell i is free and has a solid coarse cell 1..4 cells upwind of it
UpwindSolid(i, dist) ==
  /\ (i % aW) - other.wind.wdx * dist >= 0 /\ (i % aW) - other.wind.wdx * dist < aW
  /\ (i \div aW) - other.wind.wdy * dist >= 0 /\ (i \div aW) - other.wind.wdy * dist < aH
  /\ other.solid[aidx((i % aW) - other.wind.wdx * dist, (i \div aW) - other.wind.wdy * dist)] > 0

Shadowed(i) ==
  /\ i < aN /\ other.solid[i] = 0
  /\ other.wind.wdx # 0 \/ other.wind.wdy # 0
  /\ \E dist \in 1..4 : UpwindSolid(i, dist)

\* v1 has the sign of v0 (or is 0) and is not larger in magnitude
Attenuated(v0, v1) == v0 * v1 >= 0 /\ Abs(v1) <= Abs(v0)

\* C20 (as stated): the visit of a free coarse cell 1 to 4 cells downwind of a
\* solid one leaves both velocity components with their sign and no larger
C20_LeeAttenuates ==
  [][ Shadowed(sent.seen) =>
        /\ Attenuated(vxField[sent.seen], vxField'[sent.seen])
        /\ Attenuated(vyField[sent.seen], vyField'[sent.seen]) ]_vars

\* C20, what the code does: leeFactor = 1 - 0.55 * strength is at least 0 only
\* while strength <= 1.81; under a stronger shadow both components change sign
\* (or become 0), and under strength 4 they grow by a fifth
C20_LeeFactorSign ==
  [][ (Shadowed(sent.seen) /\ ~other.wind.strong) =>
        \A sh \in {leeShadow(other.solid, sent.seen, other.wind.wdx, other.wind.wdy)} :
          /\ sh[1] <= 181 => Attenuated(vxField[sent.seen], vxField'[sent.seen])
          /\ sh[1] > 181 => vxField[sent.seen] * vxField'[sent.seen] <= 0
          /\ sh[1] = 400 => Abs(vxField'[sent.seen]) = (Abs(vxField[sent.seen]) * 12) \div 10 ]_vars

\* a wind of 1000 has become -1200 behind an obstacle of solidity 4
C20_Reversed ==
  /\ sent.seen = LeeObstacle + 2 /\ other.solid[LeeObstacle] = 4 /\ other.wind.wdx = 1
  /\ vxField[LeeObstacle + 1] = -1200 /\ vxField[LeeObstacle + 2] = 1000

(* ------------------------------------------- the move primitive on its own *)
\* trySwapIfHeavier called once on a cleared world holding a source cell of
\* material a and a neighbouring target cell of material b
SwapX == 1
SwapY == 1
SwapAuxA == 7
SwapAuxB == 9
SwapDirs == {<<0, 1>>, <<1, 1>>, <<-1, 1>>, <<1, 0>>, <<-1, 0>>, <<0, -1>>}

SwapInit ==
  /\ \E a \in Materials, b \in Materials, d \in SwapDirs :
       /\ Starts([onClear(initBuffers) EXCEPT
                   !.typeA[idx(SwapX, SwapY)] = a,
                   !.dataA[idx(SwapX, SwapY)] = SwapAuxA,
                   !.typeA[idx(SwapX + d[1], SwapY + d[2])] = b,
                   !.dataA[idx(SwapX + d[1], SwapY + d[2])] = SwapAuxB])
       /\ sent = [a |-> a, b |-> b, nx |-> SwapX + d[1], ny |-> SwapY + d[2]]
  /\ other = [done |-> FALSE, r |-> FALSE]

SwapCall ==
  /\ ~other.done
  /\ \E res \in {trySwapIfHeavier(Machine, SwapX, SwapY, sent.nx, sent.ny)} :
       /\ Becomes(res.w)
       /\ other' = [done |-> TRUE, r |-> res.r]
  /\ sent' = sent

SwapNext == SwapCall

SpecSwap == SwapInit /\ [][SwapNext]_vars

(* ------------------------------------------------ C4 density ordering *)
SwapSource == idx(SwapX, SwapY)
SwapTarget == idx(sent.nx, sent.ny)

Exchanged ==
  /\ typeA[SwapSource] = sent.b /\ dataA[SwapSource] = SwapAuxB
  /\ typeA[SwapTarget] = sent.a /\ dataA[SwapTarget] = SwapAuxA

InPlace ==
  /\ typeA[SwapSource] = sent.a /\ dataA[SwapSource] = SwapAuxA
  /\ typeA[SwapTarget] = sent.b /\ dataA[SwapTarget] = SwapAuxB

\* C4 (as stated): trySwapIfHeavier swaps if and only if the target is not a
\* rigid solid and is less dense than the source
C4_DensityOrder ==
  other.done =>
    /\ other.r <=> (~IS_SOLID(sent.b) /\ DENSITY(sent.b) < DENSITY(sent.a))
    /\ IF other.r THEN Exchanged ELSE InPlace

\* C4: trySwapIfHeavier swaps (exchanging type and aux, returning true) if
\* and only if the target is AIR, SMOKE or STEAM, or the target is not a
\* rigid solid and is less dense than the source; otherwise both cells stay
\* as they are; it never swaps into a rigid solid
C4_SwapRule ==
  other.done =>
    /\ other.r <=> \/ sent.b \in {AIR, SMOKE, STEAM}
                   \/ ~IS_SOLID(sent.b) /\ DENSITY(sent.b) < DENSITY(sent.a)
    /\ IF other.r THEN Exchanged ELSE InPlace
    /\ IS_SOLID(sent.b) => ~other.r

\* a spark has changed places with smoke, which is denser than it
C4_LightIntoGas ==
  other.done /\ other.r /\ sent.a = SPARK /\ sent.b = SMOKE /\ Exchanged

(* ------------------------------------------- the air field at its limits *)
\* updateAir and the pressure tool applied to air fields that hold the extreme
\* values the tools can store, with one stroke of the pressure tool at any
\* point.  sent counts the calls made; other names the last operation.
ClampMaxRuns == 2
ClampStrengths == {1, 100, 1000}
ClampP == {-P_MAX, 0, P_MAX}
ClampV == {-P_MAX, V_MAX, P_MAX}
ClampTicks == {2, 8}

\* a stamp of the pressure tool that stores the sum without the clamp
pressureRaw(w, x, y, dir, st) ==
  [w EXCEPT !.pField[aidx(toAirX(x), toAirY(y))] = I16(@ + dir * st * 45)]

\* stamp(x, y, fall) of the tools 'pressure', 'pressureSource', 'pressureSink'
\* at the centre of the brush, where fall = 1
pressureStamp(w, x, y, dir, st) ==
  [w EXCEPT !.pField[aidx(toAirX(x), toAirY(y))] = I16(clamp(@ + dir * st * 45, -P_MAX, P_MAX))]

\* paintAt for a pressure stroke of brush 1 that starts and ends in (x, y):
\* applyBrushCircleFalloff visits the centre with fall 1 and the four
\* neighbours with fall 0, which adds nothing to their coarse cell
pressureStroke(w, x, y, dir, st) ==
  Then(IF y > 0 THEN markCellAndNeighbors(w, x, y - 1) ELSE w, LAMBDA w1 :
  Then(IF x > 0 THEN markCellAndNeighbors(w1, x - 1, y) ELSE w1, LAMBDA w2 :
  Then(markCellAndNeighbors(pressureStamp(w2, x, y, dir, st), x, y), LAMBDA w3 :
  Then(IF x < W - 1 THEN markCellAndNeighbors(w3, x + 1, y) ELSE w3, LAMBDA w4 :
  IF y < H - 1 THEN markCellAndNeighbors(w4, x, y + 1) ELSE w4))))

ClampStart(k, pa, pb, vx, vy, t) ==
  [onClear(initBuffers) EXCEPT
     !.typeA = [i \in Cells |-> IF i \in stones(k, 0) THEN STONE ELSE AIR],
     !.pField = [i \in AirCells |-> IF i % 2 = 0 THEN pa ELSE pb],
     !.vxField = [i \in AirCells |-> vx],
     !.vyField = [i \in AirCells |-> vy],
     !.tick = t, !.pc = "air"]

ClampInit ==
  /\ \E k \in {0, 4}, pa \in ClampP, pb \in {-P_MAX, P_MAX}, vx \in ClampV, vy \in {0, P_MAX},
        t \in ClampTicks :
       Starts(ClampStart(k, pa, pb, vx, vy, t))
  /\ sent = [runs |-> 0, stamped |-> FALSE]
  /\ other = [op |-> "none", p0 |-> 0, ai |-> 0]

ClampAir ==
  /\ sent.runs < ClampMaxRuns
  /\ \E m \in {updateAir(Machine)} : Becomes(m)
  /\ sent' = [sent EXCEPT !.runs = @ + 1]
  /\ other' = [op |-> "air", p0 |-> 0, ai |-> 0]

ClampPressure ==
  /\ ~sent.stamped
  /\ \E x \in {0, LeeObstacle * AIR_SCALE + 1}, dir \in {-1, 1}, st \in ClampStrengths :
       /\ \E m \in {pressureStroke(Machine, x, 1, dir, st)} : Becomes(m)
       /\ other' = [op |-> "pressure", p0 |-> pField[aidx(toAirX(x), toAirY(1))],
                    ai |-> aidx(toAirX(x), toAirY(1))]
  /\ sent' = [sent EXCEPT !.stamped = TRUE]

ClampNext == ClampAir \/ ClampPressure

SpecClamp == ClampInit /\ [][ClampNext]_vars

C5_Saturated ==
  /\ other.op = "pressure" /\ Abs(other.p0) < P_MAX
  /\ Abs(pField[other.ai]) = P_MAX

DetMaxTick == 3
DetStrokes == { dot(WATER, 0, 1), dot(SAND, 40, 0), dot(SMOKE, 41, 1) }

\* the pass of step() that m.pc stands before
stepAt(m) ==
  CASE m.pc = "powder" -> stepPowder(m)
    [] m.pc = "gas" -> stepGas(m)
    [] m.pc = "air" -> stepAir(m)
    [] m.pc = "fire" -> stepFire(m)
    [] m.pc = "sleep" -> stepSleep(m)
    [] m.pc = "render" -> stepRender(m)

\* the first tick of a worker, which has no frame time yet
firstTick(m) ==
  Then(stepBegin(m, 0), LAMBDA m1 :
  Then(stepPowder(m1), LAMBDA m2 :
  Then(stepSleep(m2), LAMBDA m3 : stepRender(m3))))

DetInit ==
  \E m0 \in {firstTick(initBuffers)} :
    \E s1 \in DetStrokes, s2 \in DetStrokes :
      \E m \in {onStroke(onStroke(m0, s1), s2)} :
        /\ Starts(m)
        /\ other = [m |-> m]
        /\ sent = [plan |-> <<s1, s2>>]

\* both workers enter step(); worker 1 is this module's state, worker 2 other.m
DetStepBegin ==
  /\ pc = "idle" /\ tick < DetMaxTick
  /\ \E dtA \in DtSet, dtB \in DtSet :
       \E r \in {[k \in {1, 2} |-> stepBegin(IF k = 1 THEN Machine ELSE other.m,
                                              IF k = 1 THEN dtA ELSE dtB)]} :
         \E ma \in {r[1]}, mb \in {r[2]} :
           Becomes(ma) /\ other' = [m |-> mb]
  /\ sent' = sent

\* both workers run the pass they stand before
DetPass ==
  /\ pc # "idle"
  /\ \E r \in {[k \in {1, 2} |-> stepAt(IF k = 1 THEN Machine ELSE other.m)]} :
       \E ma \in {r[1]}, mb \in {r[2]} :
         Becomes(ma) /\ other' = [m |-> mb]
  /\ sent' = sent

DetNext == DetStepBegin \/ DetPass

SpecDet == DetInit /\ [][DetNext]_vars

(* ------------------------------------------------------- C10 determinism *)
\* both workers have taken all strokes and ended the same number of ticks
DetSameInput ==
  /\ pc = "idle" /\ other.m.pc = "idle" /\ tick = other.m.tick
  /\ paintQueue = <<>> /\ other.m.paintQueue = <<>>

\* C10 (as stated): two runs from the same world and seed that receive the
\* same stroke messages hold identical grids (type and aux) after the same
\* number of ticks, whatever their frame times were
C10_Deterministic ==
  DetSameInput => (typeA = other.m.typeA /\ dataA = other.m.dataA)

(* --------------------------------------------------- a painted firework *)
\* One FIREWORK cell is painted before the first tick, either into the initial
\* scene, where it lies enclosed in stone, or into a cleared world, where it
\* drops to the floor with air above it.  Then the simulation ticks.
FuseMaxTick == 110
FuseX == 31

FuseInit ==
  /\ \E m \in {initBuffers, onClear(initBuffers)} : Starts(m)
  /\ sent = [posted |-> FALSE]
  /\ other = NoOther

FuseStroke ==
  /\ pc = "idle" /\ tick = 0 /\ ~sent.posted
  /\ \E m \in {onStroke(Machine, dot(FIREWORK, FuseX, 1))} : Becomes(m)
  /\ sent' = [posted |-> TRUE]
  /\ UNCHANGED other

FuseStepBegin ==
  /\ pc = "idle" /\ whole /\ tick < FuseMaxTick /\ sent.posted
  /\ \E dt \in (IF lastT = 0 THEN {0} ELSE {16}) :
       \E m \in {stepBegin(Machine, dt)} : Becomes(m)
  /\ UNCHANGED <<sent, other>>

FuseNext ==
  \/ FuseStroke \/ FuseStepBegin
  \/ StepPowder \/ StepGas \/ StepAir \/ StepFire \/ StepSleep \/ StepRender

\* the frame loop keeps ticking
FuseAdvance ==
  /\ pc # "idle" \/ (whole /\ tick < FuseMaxTick /\ sent.posted)
  /\ pc' \in Phases \ {pc}

SpecFuse == FuseInit /\ [][FuseNext]_vars /\ WF_pc(FuseAdvance)

(* ------------------------------------------------ C21 firework liveness *)
Fireworks == { i \in Cells : typeA[i] = FIREWORK }
ChunkOf(i) == cidx(cellToChunkX(i % W), cellToChunkY(i \div W))

\* C21 (as stated): a painted FIREWORK eventually detonates while the
\* simulation keeps ticking
C21_FireworkDetonates == (Fireworks # {}) ~> (Fireworks = {} /\ tick > 0)

\* C21, what the code does: a firework whose chunk is inactive keeps its type
\* and its fuse, and its chunk stays inactive, in every step in which no
\* message arrives
C21_SleepingFuseStays ==
  [][ \A i \in Cells :
        (typeA[i] = FIREWORK /\ cActive[ChunkOf(i)] = 0 /\ sent' = sent) =>
          /\ typeA'[i] = FIREWORK /\ dataA'[i] = dataA[i]
          /\ cActive'[ChunkOf(i)] = 0 ]_vars

\* the chunk of the enclosed firework has gone to sleep with the fuse unspent
C21_AsleepUnspent ==
  \E i \in Fireworks : cActive[ChunkOf(i)] = 0 /\ dataA[i] > 0 /\ pc = "idle"

\* a firework's fuse has reached zero and it has gone off
C21_Detonated == sent.posted /\ tick > 0 /\ Fireworks = {} /\ ~whole

(* ============================================================ chain blasts *)
\* A NITRO cell at (BlastX, BlastY) with a FIRE cell beside it, and a second
\* explosive cell, NITRO or GAS, seven cells away: outside the ring of the
\* blast, inside the square of its chain loop.  The two explosive cells are
\* painted into the stone scene in the first tick, the FIRE cell in the second.
BlastMaxTick == 5
BlastX == 55
BlastY == 2
BlastSpots == { <<48, 2>>, <<48, 1>>, <<48, 0>>, <<62, 2>> }

BlastStrokes(kind, at) ==
  << dot(NITRO, BlastX, BlastY), dot(kind, at[1], at[2]), dot(FIRE, BlastX + 1, BlastY) >>

BlastInit ==
  /\ Starts(initBuffers)
  /\ \E kind \in {NITRO, GAS}, at \in BlastSpots : sent = [posted |-> 0, kind |-> kind, at |-> at]
  /\ other = NoOther

BlastStroke ==
  /\ pc = "idle" /\ sent.posted < 3 /\ tick = (IF sent.posted < 2 THEN 0 ELSE 1)
  /\ \E m \in {onStroke(Machine, BlastStrokes(sent.kind, sent.at)[sent.posted + 1])} : Becomes(m)
  /\ sent' = [sent EXCEPT !.posted = @ + 1]
  /\ UNCHANGED other

BlastStepBegin ==
  /\ pc = "idle" /\ whole /\ tick < BlastMaxTick
  /\ sent.posted = (IF tick = 0 THEN 2 ELSE 3)
  /\ \E dt \in (IF lastT = 0 THEN {0} ELSE {16}) :
       \E m \in {stepBegin(Machine, dt)} : Becomes(m)
  /\ UNCHANGED <<sent, other>>

BlastNext ==
  \/ BlastStroke \/ BlastStepBegin
  \/ StepPowder \/ StepGas \/ StepAir \/ StepFire \/ StepSleep \/ StepRender

SpecBlast == BlastInit /\ [][BlastNext]_vars

(* ------------------------------------------- C22 no same-tick detonation *)
BlastAt == idx(BlastX, BlastY)
PrimedAt == idx(sent.at[1], sent.at[2])

\* the cell at BlastAt has exploded in the current tick
Exploded == type0[BlastAt] = NITRO /\ typeA[BlastAt] # NITRO /\ tick > 0

\* C22 (as stated): the NITRO cell primed by the explosion of the current tick
\* is still NITRO, wherever it lies relative to the exploding cell and to the
\* scan order
C22_NoSameTickChain ==
  (Exploded /\ sent.kind = NITRO /\ type0[PrimedAt] = NITRO) => typeA[PrimedAt] = NITRO

\* a primed cell that the scan had passed before the explosion: it is primed at
\* the end of the tick and explodes in the next one
C22_PrimedForNextTick ==
  /\ Exploded /\ sent.kind = NITRO /\ pc = "render"
  /\ typeA[PrimedAt] = NITRO /\ dataA[PrimedAt] = 255

(* -------------------------------------------------- C23 primed GAS cells *)
\* a GAS cell is painted with at most 239 in its aux byte and primed to 255:
\* a value in between is that of a primed cell that gasStep has processed
PrimedGasProcessed ==
  sent.kind = GAS /\ typeA[PrimedAt] = GAS /\ dataA[PrimedAt] \in 240..254

\* C23 (as stated): a primed GAS cell detonates when gasStep next processes
\* it, with no FIRE, SPARK or LAVA beside it
C23_PrimedGasDetonates == ~PrimedGasProcessed

\* the GAS cell has been primed by the explosion
C23_GasPrimed == sent.kind = GAS /\ typeA[PrimedAt] = GAS /\ dataA[PrimedAt] = 255

(* ============================================================ cloud cells *)
\* A single CLOUD cell painted into the top row of the cleared world, between
\* two STONE cells that leave it two cells to drift in.  The generator has made
\* some number of draws before, as after earlier activity.
CloudMaxTick == 12
CloudSeeds == 12
CloudX == 40
CloudDraws == 0..(CloudSeeds - 1)
CloudPlan == << dot(STONE, CloudX - 2, 0), dot(STONE, CloudX + 1, 0), dot(CLOUD, CloudX, 0) >>

CloudInit ==
  /\ Starts(onClear(initBuffers))
  /\ \E k \in CloudDraws : sent = [posted |-> 0, draws |-> k]
  /\ other = NoOther

\* the draws made before the first stroke are taken when it arrives
CloudStroke ==
  /\ pc = "idle" /\ tick = 0 /\ sent.posted < Len(CloudPlan)
  /\ \E m \in {onStroke([Machine EXCEPT !.seed = IF sent.posted = 0
                                                  THEN rndJump(@, sent.draws) ELSE @],
                         CloudPlan[sent.posted + 1])} : Becomes(m)
  /\ sent' = [sent EXCEPT !.posted = @ + 1]
  /\ UNCHANGED other

CloudStepBegin ==
  /\ pc = "idle" /\ whole /\ tick < CloudMaxTick /\ sent.posted = Len(CloudPlan)
  /\ \E dt \in (IF lastT = 0 THEN {0} ELSE {16}) :
       \E m \in {stepBegin(Machine, dt)} : Becomes(m)
  /\ UNCHANGED <<sent, other>>

CloudNext ==
  \/ CloudStroke \/ CloudStepBegin
  \/ StepPowder \/ StepGas \/ StepAir \/ StepFire \/ StepSleep \/ StepRender

SpecCloud == CloudInit /\ [][CloudNext]_vars

(* --------------------------------------------------- C24 cloud aux safety *)
\* the types of the cells the cloud lifecycle has worked on in this tick
CloudAccesses == { c[3] : c \in { d \in calls : d[1] = "cloud" } }
Matter == { i \in Cells : typeA[i] \notin {AIR, STONE} }

\* C24 (as stated), the accesses: the lifecycle reads and writes the aux byte
\* of a CLOUD cell only
C24_CloudAuxOnCloud == CloudAccesses \subseteq {CLOUD}

\* C24 (as stated), the consequence: one painted cloud never becomes two cells
\* of matter
C24_NoMatterCreated == Cardinality(Matter) <= 1

\* the lifecycle has run on the cloud where it stood
C24_LifeOnCloud == CLOUD \in CloudAccesses

(* ============================================================= acid cells *)
\* An ACID cell painted into the stone scene with a SOAP cell on one of its
\* four sides and, in half of the plans, a WOOD cell on the next side.  The
\* generator has made some number of draws before the first stroke.
AcidMaxTick == 4
AcidSeeds == 4
AcidX == 40
AcidY == 1
AcidSides == << <<-1, 0>>, <<1, 0>>, <<0, -1>>, <<0, 1>> >>

AcidAt == idx(AcidX, AcidY)
SoapAt == idx(AcidX + AcidSides[sent.soap][1], AcidY + AcidSides[sent.soap][2])
WoodSide == (sent.soap % 4) + 1
WoodAt == idx(AcidX + AcidSides[WoodSide][1], AcidY + AcidSides[WoodSide][2])

AcidPlan(soap, wood) ==
  << dot(SOAP, AcidX + AcidSides[soap][1], AcidY + AcidSides[soap][2]),
     dot(IF wood THEN WOOD ELSE STONE,
         AcidX + AcidSides[(soap % 4) + 1][1], AcidY + AcidSides[(soap % 4) + 1][2]),
     dot(ACID, AcidX, AcidY) >>

AcidInit ==
  /\ Starts(initBuffers)
  /\ \E k \in 0..(AcidSeeds - 1), soap \in 1..4, wood \in BOOLEAN :
       sent = [posted |-> 0, draws |-> k, soap |-> soap, wood |-> wood]
  /\ other = NoOther

\* the draws made before the first stroke are taken when it arrives
AcidStroke ==
  /\ pc = "idle" /\ tick = 0 /\ sent.posted < 3
  /\ \E m \in {onStroke([Machine EXCEPT !.seed = IF sent.posted = 0
                                                  THEN rndJump(@, sent.draws) ELSE @],
                         AcidPlan(sent.soap, sent.wood)[sent.posted + 1])} : Becomes(m)
  /\ sent' = [sent EXCEPT !.posted = @ + 1]
  /\ UNCHANGED other

AcidStepBegin ==
  /\ pc = "idle" /\ whole /\ tick < AcidMaxTick /\ sent.posted = 3
  /\ \E dt \in (IF lastT = 0 THEN {0} ELSE {16}) :
       \E m \in {stepBegin(Machine, dt)} : Becomes(m)
  /\ UNCHANGED <<sent, other>>

AcidNext ==
  \/ AcidStroke \/ AcidStepBegin
  \/ StepPowder \/ StepGas \/ StepAir \/ StepFire \/ StepSleep \/ StepRender

SpecAcid == AcidInit /\ [][AcidNext]_vars

(* ------------------------------------------------ C25 acid neutralisation *)
\* the powder pass of this tick has just turned the SOAP cell into FOAM, which
\* only the neutralisation does
Neutralized ==
  /\ passes = <<"strokes", "powder">>
  /\ typeA[SoapAt] = FOAM
  /\ tick = 1 \/ type0[SoapAt] = SOAP

WoodWas == IF tick = 1 THEN sent.wood ELSE type0[WoodAt] = WOOD
FreshFoam == 80..139

\* C25 (as stated): after the neutralising fluidStep both cells are FOAM with
\* a fresh lifetime, and the former acid has dissolved nothing further
C25_NeutralizedFresh ==
  Neutralized =>
    /\ typeA[AcidAt] = FOAM /\ dataA[AcidAt] \in FreshFoam
    /\ dataA[SoapAt] \in FreshFoam
    /\ WoodWas => typeA[WoodAt] = WOOD

\* the former soap cell does carry a fresh lifetime
C25_SoapFresh == Neutralized /\ dataA[SoapAt] \in FreshFoam

(* ==================================================================== ants *)
\* An ANT painted on the floor of the cleared world with a SEED on either
\* side.  The generator has made some number of draws before the first
\* stroke.
AntMaxTick == 8
AntX == 40
AntDraws == {0, 11, 19, 25}
AntPlan == << dot(SEED, AntX - 1, H - 1), dot(SEED, AntX + 1, H - 1), dot(ANT, AntX, H - 1) >>

AntInit ==
  /\ Starts(onClear(initBuffers))
  /\ \E k \in AntDraws : sent = [posted |-> 0, draws |-> k]
  /\ other = NoOther

\* the draws made before the first stroke are taken when it arrives
AntStroke ==
  /\ pc = "idle" /\ tick = 0 /\ sent.posted < Len(AntPlan)
  /\ \E m \in {onStroke([Machine EXCEPT !.seed = IF sent.posted = 0
                                                  THEN rndJump(@, sent.draws) ELSE @],
                         AntPlan[sent.posted + 1])} : Becomes(m)
  /\ sent' = [sent EXCEPT !.posted = @ + 1]
  /\ UNCHANGED other

AntStepBegin ==
  /\ pc = "idle" /\ whole /\ tick < AntMaxTick /\ sent.posted = Len(AntPlan)
  /\ \E dt \in (IF lastT = 0 THEN {0} ELSE {16}) :
       \E m \in {stepBegin(Machine, dt)} : Becomes(m)
  /\ UNCHANGED <<sent, other>>

AntNext ==
  \/ AntStroke \/ AntStepBegin
  \/ StepPowder \/ StepGas \/ StepAir \/ StepFire \/ StepSleep \/ StepRender

SpecAnt == AntInit /\ [][AntNext]_vars

(* ------------------------------------------------- C26 seed conservation *)
SeedCells == { i \in Cells : typeA[i] = SEED }
CarryingAnts == { i \in Cells : typeA[i] = ANT /\ (dataA[i] \div 4) % 2 = 1 }
SeedQuantity == Cardinality(SeedCells) + Cardinality(CarryingAnts)

\* C26 (as stated): the ant never increases the number of SEED cells plus
\* carrying ants; two seeds were painted
C26_SeedsConserved == SeedQuantity <= 2

\* the ant has picked a seed up: one SEED cell fewer, the flag set
C26_PickedUp == Cardinality(CarryingAnts) = 1 /\ Cardinality(SeedCells) = 1

(* -------------------------------------------------- C27 ant reversal *)
Reversals == { c \in calls : c[1] = "reverse" }

\* C27 (as stated): a stuck ant stores the direction opposite to the one it
\* had: left <-> right, up <-> down
C27_ReverseIsOpposite == \A c \in Reversals : c[3] = antOpposite(c[2])

\* an ant was stuck and has stored a new direction
C27_Reversed == Reversals # {}

(* ------------------------------------------------- lava crust (SpecCrust) *)
\* A LAVA cell painted into the bottom row of the stone scene, the cell above
\* it erased to AIR; after sent.when ticks a burnable material is painted on
\* top of the lava.
CrustMaxTick == 12
CrustX == 40
CrustDraws == {0, 26, 30, 35}
CrustKinds == {NITRO, GAS, WOOD}
CrustWhens == {0, 4, 8}
LavaAt == idx(CrustX, H - 1)
BurnAt == idx(CrustX, H - 2)
CrustPlan(kind) ==
  << dot(LAVA, CrustX, H - 1),
     [dot(AIR, CrustX, H - 2) EXCEPT !.st.tool = "erase"],
     dot(kind, CrustX, H - 2) >>

CrustInit ==
  /\ Starts(initBuffers)
  /\ \E k \in CrustDraws, kind \in CrustKinds, t \in CrustWhens :
       sent = [posted |-> 0, draws |-> k, kind |-> kind, when |-> t, crusted |-> FALSE]
  /\ other = NoOther

\* the last stroke arrives at tick sent.when; sent.crusted records the crust
\* flag of the lava at that moment
CrustStroke ==
  /\ pc = "idle" /\ sent.posted < 3
  /\ tick = (IF sent.posted < 2 THEN 0 ELSE sent.when)
  /\ \E m \in {onStroke([Machine EXCEPT !.seed = IF sent.posted = 0
                                                  THEN rndJump(@, sent.draws) ELSE @],
                         CrustPlan(sent.kind)[sent.posted + 1])} : Becomes(m)
  /\ sent' = [sent EXCEPT !.posted = @ + 1,
                          !.crusted = typeA[LavaAt] = LAVA /\ dataA[LavaAt] >= 128]
  /\ UNCHANGED other

CrustStepBegin ==
  /\ pc = "idle" /\ whole /\ tick < CrustMaxTick
  /\ sent.posted = 3 \/ (sent.posted = 2 /\ tick # sent.when)
  /\ \E dt \in (IF lastT = 0 THEN {0} ELSE {16}) :
       \E m \in {stepBegin(Machine, dt)} : Becomes(m)
  /\ UNCHANGED <<sent, other>>

CrustNext ==
  \/ CrustStroke \/ CrustStepBegin
  \/ StepPowder \/ StepGas \/ StepAir \/ StepFire \/ StepSleep \/ StepRender

SpecCrust == CrustInit /\ [][CrustNext]_vars

(* ------------------------------------------ C28 the crust blocks ignition *)
Burning == { i \in Cells : typeA[i] \in {FIRE, SPARK} }

\* C28 (as stated): a burnable cell placed beside crusted lava is neither
\* ignited nor detonated by it; the lava is the only source of heat in this
\* world, so no FIRE or SPARK cell ever appears
C28_CrustBlocksIgnition == (sent.posted = 3 /\ sent.crusted) => Burning = {}

\* the lava's own contact rule respects the crust: WOOD on crusted lava is
\* still WOOD after a fire pass over the crusted lava
C28_CrustedWoodKept ==
  /\ sent.posted = 3 /\ sent.crusted /\ sent.kind = WOOD /\ tick >= sent.when + 4
  /\ typeA[LavaAt] = LAVA /\ dataA[LavaAt] >= 128 /\ typeA[BurnAt] = WOOD

\* lava without a crust does ignite the WOOD above it
C28_BareLavaIgnites ==
  sent.posted = 3 /\ ~sent.crusted /\ sent.kind = WOOD /\ typeA[BurnAt] = FIRE

\* NITRO or GAS painted on crusted lava has detonated
C28_CrustedDetonation ==
  sent.posted = 3 /\ sent.crusted /\ sent.kind \in {NITRO, GAS} /\ typeA[BurnAt] = FIRE

(* --------------------------------------------------- wind bands (SpecWind) *)
\* One SAND grain on the bottom row of a cleared world, AIR all around it, at
\* the powder pass of a tick; the coarse field, the ambient drift and the
\* global wind are drawn from values up to the bounds the code keeps them in:
\* +-30000 for a field value (the clamp of the wind tools and of the hop),
\* 800 and 400 for the ambient targets, 240 * 100 for the length of the
\* global wind vector.
WindX == 40
WindDraws == {0, 1, 9}
WindAt == idx(WindX, H - 1)
WindVX == {0, 9000, 24000, 30000}
WindVY == {0, 24000, 30000}
WindAmb == {<<0, 0>>, <<800, 400>>}
WindGlobal == {<<0, 0>>, <<24000, 0>>, <<16970, 16971>>}

WindStart(vx, vy, a, g, k) ==
  [onClear(initBuffers) EXCEPT
     !.typeA[WindAt] = SAND, !.type0[WindAt] = SAND,
     !.vxField = [i \in AirCells |-> vx], !.vyField = [i \in AirCells |-> vy],
     !.ambVX = a[1], !.ambVY = a[2], !.globalVX = g[1], !.globalVY = g[2],
     !.seed = rndJump(@, k), !.tick = 1, !.pc = "powder"]

WindInit ==
  \E vx \in WindVX, vy \in WindVY, a \in WindAmb, g \in WindGlobal, k \in WindDraws :
    /\ Starts(WindStart(vx, vy, a, g, k))
    /\ sent = [vx |-> vx, vy |-> vy, amb |-> a, global |-> g, draws |-> k]
    /\ other = NoOther

WindNext == StepPowder

SpecWind == WindInit /\ [][WindNext]_vars

\* the effective wind magnitude of the grain at the start of the pass, in
\* thousandths
WindM ==
  WIND_COUPLING(SAND) * (Abs(sent.vx + sent.amb[1] + sent.global[1])
                         + Abs(sent.vy + sent.amb[2] + sent.global[2]))

\* the grain has left its cell
Hopped == pc # "powder" /\ typeA[WindAt] # SAND

\* the first draw of the pass is below 0.18, the chance of a hop in the
\* saltation band
HopRoll == rndLess(rndNext(rndJump(SEED0, sent.draws)), 18, 100)

(* ----------------------------------------------------- C29 band selection *)
\* C29 (as stated): between 6000 and 20000 the grain is in the saltation
\* band, so a grain resting on the surface hops when its roll succeeds
C29_SaltationBand ==
  (pc # "powder" /\ WindM >= WIND_THRESHOLD_MED * 1000
     /\ WindM < WIND_THRESHOLD_STORM * 1000 /\ HopRoll) => Hopped

\* below 6000 the grain on the bottom row stays where it is (gravity and
\* slide bands)
C29_NoHopBelowMed == WindM < WIND_THRESHOLD_MED * 1000 => ~Hopped

\* from 12000 on the grain hops when its roll succeeds
C29_HighWindHop ==
  pc # "powder" /\ WindM >= WIND_THRESHOLD_HIGH * 1000 /\ HopRoll /\ Hopped

\* between 6000 and 12000 the grain stays although its roll succeeds
C29_SlideAboveMed ==
  /\ pc # "powder" /\ HopRoll /\ ~Hopped /\ whole
  /\ WindM >= WIND_THRESHOLD_MED * 1000 /\ WindM < WIND_THRESHOLD_HIGH * 1000

(* ------------------------------------------------ C30 storm reachability *)
\* every term of the sampled velocities at its bound
WindAtBounds ==
  /\ sent.vx = 30000 /\ sent.vy = 30000
  /\ sent.amb = <<800, 400>> /\ sent.global = <<16970, 16971>>

\* C30 (as stated): the storm band is reachable for SAND; the magnitude
\* grows with every term, so it is reached with every term at its bound
C30_StormReachable == WindAtBounds => WindM >= WIND_THRESHOLD_STORM * 1000

\* no state has a SAND magnitude in the storm band
C30_BelowStorm == WindM < WIND_THRESHOLD_STORM * 1000

\* the strongest wind has acted on the grain
C30_StrongestWind == WindAtBounds /\ pc # "powder" /\ whole

(* ------------------------------------------------- the scans, cell by cell *)
\* The loops of updatePowdersAndFluids and updateGases are taken one iteration
\* at a time.  sent holds the loop position (k: place of the chunk in the
\* order of the pass, c: place of the cell in the chunk, -1 between chunks,
\* a: cActive[ci] as read on entering the chunk) and a record of the visits:
\* last is the cell of the latest visit and its chunk, prev the one before,
\* lo and hi the smallest and the largest row visited before the latest one,
\* steps the calls of powderStep, fluidStep and gasStep made in the pass, each
\* with the particle's material and the number of cells of that material in
\* the grid at the call, made whether a visit of the pass has added a cell of
\* some material.
ScanRounds == {1, 73}
ScanDraws == {0, 1, 9}
ScanPlans ==
  { [strokes |-> <<dot(WATER, 20, 2)>>, v |-> 0, g |-> 0],
    [strokes |-> <<dot(SAND, 31, 2), dot(WATER, 31, 1)>>, v |-> 0, g |-> 0],
    [strokes |-> <<dot(SMOKE, 10, 1)>>, v |-> 0, g |-> 0],
    [strokes |-> <<dot(SAND, 40, 2)>>, v |-> 30000, g |-> 24000] }

\* n ticks of a cleared world that receives no message: the scans find no
\* particle and the air stays at rest
RECURSIVE quietTicks(_, _)
quietTicks(m, n) ==
  IF n = 0 THEN m
  ELSE IF n = 1 THEN stepRender(stepSleep([m EXCEPT !.tick = @ + 1, !.marked = {}]))
  ELSE Then(quietTicks(m, n \div 2), LAMBDA v : quietTicks(v, n - n \div 2))

RECURSIVE postAll(_, _)
postAll(m, ss) == IF ss = <<>> THEN m ELSE postAll(onStroke(m, Head(ss)), Tail(ss))

ScanStart(p, k, n) ==
  Then(quietTicks(onClear(initBuffers), n), LAMBDA m0 :
  Then(postAll([m0 EXCEPT !.seed = rndJump(@, k),
                          !.vxField = [i \in AirCells |-> p.v],
                          !.vyField = [i \in AirCells |-> p.v],
                          !.globalVX = p.g], p.strokes),
       LAMBDA m1 : stepBegin(m1, 16)))

NoVisit == <<>>

ScanInit ==
  \E p \in ScanPlans, k \in ScanDraws, n \in ScanRounds :
    /\ \E m \in {ScanStart(p, k, n)} : Starts(m)
    /\ sent = [plan |-> p, draws |-> k, rounds |-> n, pass |-> "powder",
               k |-> 1, c |-> -1, a |-> 0, seen |-> 0,
               last |-> NoVisit, prev |-> NoVisit, lo |-> H, hi |-> -1,
               made |-> FALSE, steps |-> <<>>]
    /\ other = NoOther

scanChunk == chunkOrder(sent.pass)[sent.k]

\* "if (!cActive[ci]) continue;" taken
ScanSkip ==
  /\ pc = sent.pass /\ sent.c = -1 /\ sent.k <= cN
  /\ ~chunkScanned(Machine, chunkAt(sent.pass, sent.k))
  /\ sent' = [sent EXCEPT !.k = @ + 1]
  /\ Becomes(Machine)
  /\ other' = other

\* the scan enters an active chunk
ScanEnter ==
  /\ pc = sent.pass /\ sent.c = -1 /\ sent.k <= cN
  /\ chunkScanned(Machine, chunkAt(sent.pass, sent.k))
  /\ sent' = [sent EXCEPT !.c = 0, !.a = cActive[chunkAt(sent.pass, sent.k)]]
  /\ Becomes(Machine)
  /\ other' = other

\* a step function is called for material t by the scan of a pass
stepsFor(pass, w, t) ==
  IF pass = "powder"
  THEN (IS_POWDER(t) /\ ~((t = DIRT /\ (w.tick % 4) # 0) \/ (t = ASH /\ (w.tick % 2) # 0)))
       \/ (~IS_POWDER(t) /\ IS_FLUID(t))
  ELSE t \in {SMOKE, STEAM, SPARK, CLOUD, GAS, FOAM, LASER}

\* some material has more cells in grid g2 than in grid g1
grew(g1, g2) ==
  \E i \in Cells :
    /\ g2[i] # g1[i] /\ g2[i] # AIR
    /\ Cardinality({j \in Cells : g2[j] = g2[i]}) > Cardinality({j \in Cells : g1[j] = g2[i]})

\* one iteration of the innermost loop
ScanVisit ==
  /\ pc = sent.pass /\ sent.c >= 0
  /\ LET cx == scanChunk[1]
         cy == scanChunk[2]
         xy == scanCell(sent.pass, cx, cy, sent.c)
         t == typeA[idx(xy[1], xy[2])]
         n == Cardinality({i \in Cells : typeA[i] = t})
         end == sent.c = scanSize(cx, cy) - 1
     IN \E m \in {IF sent.pass = "powder"
                  THEN visitPowder(Machine, xy[1], xy[2], cidx(cx, cy), sent.a)
                  ELSE visitGas(Machine, xy[1], xy[2], cidx(cx, cy), sent.a)} :
          /\ Becomes(m)
          /\ sent' = [sent EXCEPT
                        !.c = IF end THEN -1 ELSE @ + 1,
                        !.k = IF end THEN @ + 1 ELSE @,
                        !.seen = @ + 1,
                        !.prev = sent.last,
                        !.last = <<xy[1], xy[2], cidx(cx, cy)>>,
                        !.lo = IF sent.last = NoVisit THEN @ ELSE Min(@, sent.last[2]),
                        !.hi = IF sent.last = NoVisit THEN @ ELSE Max(@, sent.last[2]),
                        !.made = @ \/ grew(typeA, m.typeA),
                        !.steps = IF stepsFor(sent.pass, Machine, t)
                                  THEN Append(@, [t |-> t, x |-> xy[1], y |-> xy[2], n |-> n])
                                  ELSE @]
  /\ other' = other

\* the pass is over: step() goes on to the next pass
ScanEnd ==
  /\ pc = sent.pass /\ sent.c = -1 /\ sent.k > cN
  /\ \E m \in {[Machine EXCEPT !.passes = Append(@, sent.pass),
                               !.pc = IF sent.pass = "powder" THEN afterPowder(tick)
                                      ELSE afterGas(tick)]} :
       /\ Becomes(m)
       /\ sent' = [sent EXCEPT !.pass = IF m.pc = "gas" THEN "gas" ELSE "done",
                               !.k = 1, !.c = -1, !.seen = 0,
                               !.last = NoVisit, !.prev = NoVisit, !.lo = H, !.hi = -1,
                               !.made = FALSE, !.steps = <<>>]
  /\ other' = other

ScanNext == ScanSkip \/ ScanEnter \/ ScanVisit \/ ScanEnd

SpecScan == ScanInit /\ [][ScanNext]_vars

(* ------------------------------------------------------- C31 scan order *)
\* the latest visit is in no row that the pass had to visit earlier
RowOrder ==
  sent.last # NoVisit =>
    IF sent.pass = "powder" THEN sent.last[2] <= sent.lo ELSE sent.last[2] >= sent.hi

\* two visits in a row of one chunk follow the direction of the row's parity
Alternates ==
  (sent.last # NoVisit /\ sent.prev # NoVisit
     /\ sent.last[2] = sent.prev[2] /\ sent.last[3] = sent.prev[3]) =>
    sent.last[1] - sent.prev[1] = (IF sent.last[2] % 2 = 1 THEN 1 ELSE -1)

\* C31 (as stated): in the powder/fluid pass no cell is visited after a cell
\* of a row above it, in the gas pass none after a cell of a row below it,
\* for any two cells of the grid, and the rows are traversed in alternating
\* horizontal direction by row parity
C31_ScanOrder == RowOrder /\ Alternates

\* the order of rows does hold among the cells of one chunk
C31_RowOrderInChunk ==
  (sent.last # NoVisit /\ sent.prev # NoVisit /\ sent.last[3] = sent.prev[3]) =>
    IF sent.pass = "powder" THEN sent.last[2] <= sent.prev[2]
    ELSE sent.last[2] >= sent.prev[2]

\* the powder pass has come to the bottom row of a chunk after the top row of
\* the chunk to its left
C31_BackToBottom ==
  /\ sent.pass = "powder" /\ sent.last # NoVisit
  /\ sent.last[2] = H - 1 /\ sent.lo = 0

(* ---------------------------------------------- C34 one step per particle *)
\* two calls of a step function in the pass for one particle: the material had
\* a single cell at the first call and no visit of the pass has added a cell
Restepped(i, j) ==
  /\ i < j /\ ~sent.made
  /\ sent.steps[i].t = sent.steps[j].t /\ sent.steps[i].n = 1

\* C34 (as stated): within one powder/fluid pass and within one gas pass no
\* particle is stepped more than once
C34_OneStepPerPass ==
  \A i, j \in DOMAIN sent.steps : ~Restepped(i, j)

\* the second step comes in another chunk than the first
C34_AcrossChunks ==
  \E i, j \in DOMAIN sent.steps :
    Restepped(i, j) /\ cellToChunkX(sent.steps[i].x) # cellToChunkX(sent.steps[j].x)

\* the second step comes in the same row, further along the scan direction
C34_AlongScan ==
  \E i, j \in DOMAIN sent.steps :
    /\ Restepped(i, j) /\ sent.steps[i].y = sent.steps[j].y
    /\ cellToChunkX(sent.steps[i].x) = cellToChunkX(sent.steps[j].x)

\* the second step of a grain comes in a row above the first
C34_AfterHop ==
  \E i, j \in DOMAIN sent.steps :
    /\ Restepped(i, j) /\ sent.pass = "powder" /\ sent.steps[i].t = SAND
    /\ sent.steps[j].y < sent.steps[i].y

(* ------------------------------------------------------------- lightning *)
\* strikeLightning on a grid of BoltW by BoltH cells, tall enough for both
\* terms of its round limit.  The operators act on a record holding typeA,
\* dataA, seed and the locals of the call: target (target.x), branches, s.
\* A branch carries x, y, active, main and, as history, on: the material
\* read under it at its latest step.  The pressure and shockwave writes and
\* the chunk marks of the function, which it never reads, are left out.
BoltW == 5
BoltH == 122
MAX_BRANCHES == 4
BoltCells == 0..(BoltW * BoltH - 1)
NoType == CLONE + 1

boltIdx(x, y) == x + y * BoltW
boltInb(x, y) == x >= 0 /\ y >= 0 /\ x < BoltW /\ y < BoltH
boltAt(g, x, y) == g[boltIdx(x, y)]

\* a limit of rounds without the constant term
heightOnly(y) == BoltH - y

\* const maxSteps = Math.min(H - y, 120)
maxStepsOf(y) == Min(BoltH - y, 120)

\* first row below y of column xx that does not let the bolt pass, BoltH if none
firstHit(g, xx, y) ==
  LET rows == { yy \in (y + 1)..(BoltH - 1) : boltAt(g, xx, yy) \notin {AIR, SMOKE, STEAM, CLOUD} }
  IN IF rows = {} THEN BoltH ELSE CHOOSE yy \in rows : \A z \in rows : yy <= z

\* the score of findLightningTarget, in tenths
targetScore(t, dx, yy, y) ==
  10 * yy + 15 * Abs(dx)
  - (IF t = METAL THEN 250 ELSE IF t \in {WATER, ACID} THEN 120
     ELSE IF IS_SOLID(t) \/ t = WOOD THEN 80 ELSE 0)
  - (IF yy < y + 30 THEN 3 * (30 - (yy - y)) ELSE 0)

\* findLightningTarget(x, y).x
findLightningTarget(g, x, y) ==
  LET col(dx) == clamp(x + dx, 0, BoltW - 1)
      hits == { dx \in (-12)..12 : firstHit(g, col(dx), y) < BoltH }
      sc(dx) == targetScore(boltAt(g, col(dx), firstHit(g, col(dx), y)), dx,
                            firstHit(g, col(dx), y), y)
  IN IF hits = {} THEN x
     ELSE col(CHOOSE d \in hits : \A e \in hits : sc(d) < sc(e) \/ (sc(d) = sc(e) /\ d <= e))

\* The code computes the score in floating point, where two scores of equal
\* tenths may differ in the last bit.  The comparison of scores is the one
\* on tenths when no two columns share the best score.
targetExact(g, x, y) ==
  LET col(dx) == clamp(x + dx, 0, BoltW - 1)
      hits == { dx \in (-12)..12 : firstHit(g, col(dx), y) < BoltH }
      sc(dx) == targetScore(boltAt(g, col(dx), firstHit(g, col(dx), y)), dx,
                            firstHit(g, col(dx), y), y)
  IN \E d \in hits \cup {0} : \A e \in hits : e = d \/ sc(d) < sc(e)

boltPut(w, x, y, t, d) ==
  [w EXCEPT !.typeA[boltIdx(x, y)] = t, !.dataA[boltIdx(x, y)] = U8(d)]

\* typeA[i] = t; dataA[i] = least + irand(n)
boltPutRand(w, x, y, t, least, n) ==
  Then(rnd(w), LAMBDA w1 : boltPut(w1, x, y, t, least + irandOf(w1.seed, n)))

\* "rnd() < n/100" with the generator advanced
boltRoll(w, n) == [w |-> rnd(w), r |-> rndLess(rndNext(w.seed), n, 100)]

\* movement with jitter
boltMove(w, bi) ==
  LET b == w.branches[bi]
      dx == w.target - b.x
      st == IF dx # 0 THEN boltRoll(w, IF b.main THEN 72 ELSE 55) ELSE [w |-> w, r |-> FALSE]
  IN Then(st, LAMBDA s1 :
     Then(IF s1.r THEN s1.w ELSE rnd(s1.w), LAMBDA w2 :
       LET jitter == IF b.main THEN irandOf(w2.seed, 3) - 1 ELSE irandOf(w2.seed, 5) - 2
           nx == clamp(b.x + (IF s1.r THEN Sign(dx) ELSE jitter), 0, BoltW - 1)
           ny == clamp(b.y + 1, 0, BoltH - 1)
       IN [w2 EXCEPT !.branches[bi].x = nx, !.branches[bi].y = ny,
                     !.branches[bi].on = boltAt(w.typeA, nx, ny)]))

\* a side branch is created
boltFork(w, bi) ==
  LET b == w.branches[bi]
  IN IF b.main /\ Len(w.branches) < MAX_BRANCHES
     THEN Then(boltRoll(w, 8), LAMBDA f :
            IF f.r
            THEN Then(boltRoll(f.w, 50), LAMBDA d :
                   [d.w EXCEPT !.branches =
                      Append(@, [x |-> clamp(b.x + (IF d.r THEN -1 ELSE 1) * 2, 0, BoltW - 1),
                                 y |-> b.y, active |-> TRUE, main |-> FALSE, on |-> NoType])])
            ELSE f.w)
     ELSE w

\* the body of one of the three spark loops at offset (dx2, dy) from (bx, by)
boltSpark(w, kind, bx, by, r, dx2, dy) ==
  LET d2 == dx2 * dx2 + dy * dy
      nx == bx + dx2
      ny == by + dy
      skip == CASE kind = "water" -> d2 < 2 \/ d2 > r * r
                [] kind = "metal" -> dx2 = 0 /\ dy = 0
                [] kind = "solid" -> d2 < 2 \/ d2 > 8
  IN IF skip \/ ~boltInb(nx, ny) THEN w
     ELSE
       LET nt == boltAt(w.typeA, nx, ny)
       IN CASE kind = "water" ->
                 IF nt = WATER
                 THEN Then(boltRoll(w, 40), LAMBDA h :
                        IF h.r THEN boltPutRand(h.w, nx, ny, STEAM, 50, 50) ELSE h.w)
                 ELSE IF nt \in {AIR, SMOKE, STEAM} THEN boltPutRand(w, nx, ny, SPARK, 10, 15)
                 ELSE w
            [] kind = "metal" ->
                 IF nt \in {AIR, SMOKE}
                 THEN Then(boltRoll(w, 50), LAMBDA h :
                        IF h.r THEN boltPutRand(h.w, nx, ny, SPARK, 15, 20) ELSE h.w)
                 ELSE w
            [] kind = "solid" ->
                 IF nt \in {AIR, SMOKE, STEAM} THEN boltPutRand(w, nx, ny, SPARK, 10, 12)
                 ELSE w

\* iterations lo..hi of a spark loop over the square of radius r, dy outer
RECURSIVE boltSparks(_, _, _, _, _, _, _)
boltSparks(w, kind, bx, by, r, lo, hi) ==
  IF lo > hi THEN w
  ELSE IF lo = hi
  THEN boltSpark(w, kind, bx, by, r, (lo % (2 * r + 1)) - r, (lo \div (2 * r + 1)) - r)
  ELSE Then(boltSparks(w, kind, bx, by, r, lo, (lo + hi) \div 2),
            LAMBDA v : boltSparks(v, kind, bx, by, r, (lo + hi) \div 2 + 1, hi))

boltDeactivate(w, bi) == [w EXCEPT !.branches[bi].active = FALSE]

\* a branch that goes on after hitting a solid
boltKeepOn(w, bi) == w

\* the bolt passes through air or gas, or sets fire to what burns; side
\* branches die early
boltPass(w, bi) ==
  LET b == w.branches[bi]
      t == b.on
      lit == IF t \in {AIR, SMOKE, STEAM, CLOUD}
             THEN Then(boltRoll(w, IF b.main THEN 70 ELSE 45), LAMBDA sp :
                    IF sp.r THEN boltPutRand(sp.w, b.x, b.y, SPARK, 10, 12)
                    ELSE Then(boltRoll(sp.w, IF b.main THEN 25 ELSE 10), LAMBDA fi :
                           IF fi.r THEN boltPutRand(fi.w, b.x, b.y, FIRE, 50, 70) ELSE fi.w))
             ELSE IF IS_BURNABLE(t) THEN boltPutRand(w, b.x, b.y, FIRE, 70, 80)
             ELSE w
  IN Then(lit, LAMBDA w1 :
       IF ~b.main /\ w.s > 8
       THEN Then(boltRoll(w1, 15), LAMBDA die :
              IF die.r THEN boltDeactivate(die.w, bi) ELSE die.w)
       ELSE w1)

\* what the branch does to the cell it has stepped onto
boltHit(w, bi) ==
  LET b == w.branches[bi]
      t == b.on
  IN IF t = WATER
     THEN Then(boltPutRand(w, b.x, b.y, STEAM, 60, 60), LAMBDA w1 :
          Then(boltSparks(w1, "water", b.x, b.y, IF b.main THEN 4 ELSE 2, 0,
                          (IF b.main THEN 81 ELSE 25) - 1), LAMBDA w2 :
            boltDeactivate(w2, bi)))
     ELSE IF t = METAL
     THEN Then(boltSparks(w, "metal", b.x, b.y, 3, 0, 48), LAMBDA w2 : boltDeactivate(w2, bi))
     ELSE IF IS_SOLID(t)
     THEN Then(boltSparks(w, "solid", b.x, b.y, 2, 0, 24), LAMBDA w2 : boltDeactivate(w2, bi))
     ELSE boltPass(w, bi)

\* the body of the loop over branches
boltBranch(w, bi) ==
  IF ~w.branches[bi].active THEN w
  ELSE Then(boltMove(w, bi), LAMBDA w1 :
       Then(boltFork(w1, bi), LAMBDA w2 : boltHit(w2, bi)))

\* scenes: air down to two rows of one material at the bottom
BoltFloors == {AIR, WATER, METAL, STONE, PLANT, SAND}
BoltDraws == {0, 28, 43}
BoltFrom == { <<2, 0>>, <<0, 116>>, <<2, 116>>, <<4, 121>> }

boltScene(floor) ==
  [i \in BoltCells |-> IF i \div BoltW >= BoltH - 2 THEN floor ELSE AIR]

Bolt ==
  [typeA |-> typeA, dataA |-> dataA, seed |-> seed, target |-> other.target,
   branches |-> other.branches, s |-> other.s]

BoltBecomes(w) ==
  /\ typeA' = w.typeA /\ dataA' = w.dataA /\ seed' = w.seed
  /\ other' = [other EXCEPT !.branches = w.branches, !.bi = @ + 1]

BoltRest ==
  UNCHANGED <<cActive, cDirty, cChanged, cSleep, pField, vxField, vyField, tick, paused,
              paintQueue, lastT, turb, ambVX, ambVY, globalVX, globalVY, pc, marked, calls,
              airRuns, airCells, passes, type0, quiet, base, whole, sent>>

\* the call strikeLightning(x, y) up to its loop
BoltInit ==
  /\ \E floor \in BoltFloors, k \in BoltDraws, p \in BoltFrom :
       /\ (p[2] = 0) = (floor = AIR)
       /\ typeA = boltScene(floor)
       /\ targetExact(boltScene(floor), p[1], p[2])
       /\ seed = rndJump(SEED0, k)
       /\ other = [pc |-> "round", x0 |-> p[1], y0 |-> p[2],
                   target |-> findLightningTarget(boltScene(floor), p[1], p[2]),
                   maxSteps |-> maxStepsOf(p[2]), s |-> 0, bi |-> 1,
                   branches |-> <<[x |-> p[1], y |-> p[2], active |-> TRUE, main |-> TRUE,
                                   on |-> NoType]>>]
       /\ sent = [floor |-> floor, draws |-> k]
  /\ dataA = [i \in BoltCells |-> 0]
  /\ cActive = <<>> /\ cDirty = <<>> /\ cChanged = <<>> /\ cSleep = <<>>
  /\ pField = <<>> /\ vxField = <<>> /\ vyField = <<>>
  /\ tick = 0 /\ paused = FALSE /\ paintQueue = <<>> /\ lastT = 0
  /\ turb = turbDefault /\ ambVX = 0 /\ ambVY = 0 /\ globalVX = 0 /\ globalVY = 0
  /\ pc = "fire" /\ marked = {} /\ calls = {} /\ airRuns = 0 /\ airCells = {}
  /\ passes = <<>> /\ type0 = <<>> /\ quiet = <<>> /\ base = <<>> /\ whole = TRUE

\* one iteration of "for (let bi = 0; bi < branches.length; bi++)"
BoltBranch ==
  /\ other.pc = "round" /\ other.bi <= Len(other.branches)
  /\ \E w \in {boltBranch(Bolt, other.bi)} : BoltBecomes(w)
  /\ BoltRest

\* s++ and the test "s < maxSteps && branches.some(b => b.active)"
BoltRound ==
  /\ other.pc = "round" /\ other.bi > Len(other.branches)
  /\ other' = [other EXCEPT
                 !.s = @ + 1, !.bi = 1,
                 !.pc = IF other.s + 1 < other.maxSteps
                           /\ \E i \in DOMAIN other.branches : other.branches[i].active
                        THEN "round" ELSE "done"]
  /\ UNCHANGED <<typeA, dataA, seed>>
  /\ BoltRest

BoltNext == BoltBranch \/ BoltRound

\* a call runs to its end once it has begun
SpecBolt == BoltInit /\ [][BoltNext]_vars /\ WF_vars(BoltNext)

(* --------------------------------------------------- C32 bounded lightning *)
BoltBounded ==
  /\ other.s <= Min(BoltH - other.y0, 120)
  /\ (other.pc = "round" /\ other.bi <= Len(other.branches)) => other.s < Min(BoltH - other.y0, 120)
  /\ Len(other.branches) <= 4
  /\ \A i \in DOMAIN other.branches :
       LET b == other.branches[i]
       IN /\ boltInb(b.x, b.y)
          /\ (b.on = WATER \/ b.on = METAL \/ IS_SOLID(b.on)) => ~b.active

\* C32: every call of strikeLightning(x, y) comes to its end, after at most
\* min(H - y, 120) rounds, with never more than 4 branches, every branch
\* inside the grid, and a branch inactive once it has stepped onto WATER,
\* METAL or another rigid solid
C32_LightningBounded == []BoltBounded /\ <>(other.pc = "done")

\* a call from the top row has ended after 120 rounds with the main branch
\* still active, four branches made and the limit of branches met
C32_FullLength ==
  /\ other.pc = "done" /\ other.y0 = 0 /\ other.s = 120
  /\ Len(other.branches) = 4 /\ other.branches[1].active

\* the main branch has ended on water, metal or stone
C32_Grounded ==
  /\ other.pc = "done" /\ ~other.branches[1].active
  /\ other.branches[1].on \in {WATER, METAL, STONE}

(* ------------------------------------------- a short-lived cell in stone *)
\* One SMOKE, STEAM, SPARK or FIRE cell is painted before the first tick into
\* the initial scene, where it lies enclosed in stone and cannot move.  Then
\* the simulation ticks, with no further message.
ExpMaxTick == 80
ExpX == 31
ExpAt == idx(ExpX, 1)
ShortLived == {SMOKE, STEAM, SPARK, FIRE}

ExpInit ==
  /\ Starts(initBuffers)
  /\ \E kind \in ShortLived : sent = [posted |-> FALSE, kind |-> kind]
  /\ other = NoOther

ExpStroke ==
  /\ pc = "idle" /\ tick = 0 /\ ~sent.posted
  /\ \E m \in {onStroke(Machine, dot(sent.kind, ExpX, 1))} : Becomes(m)
  /\ sent' = [sent EXCEPT !.posted = TRUE]
  /\ UNCHANGED other

ExpStepBegin ==
  /\ pc = "idle" /\ tick < ExpMaxTick /\ sent.posted
  /\ \E dt \in (IF lastT = 0 THEN {0} ELSE {16}) :
       \E m \in {stepBegin(Machine, dt)} : Becomes(m)
  /\ UNCHANGED <<sent, other>>

ExpNext ==
  \/ ExpStroke \/ ExpStepBegin
  \/ StepPowder \/ StepGas \/ StepAir \/ StepFire \/ StepSleep \/ StepRender

\* the frame loop keeps ticking
ExpAdvance ==
  /\ pc # "idle" \/ (tick < ExpMaxTick /\ sent.posted)
  /\ pc' \in Phases \ {pc}

SpecExpire == ExpInit /\ [][ExpNext]_vars /\ WF_pc(ExpAdvance)

(* ------------------------------------------------- C33 expiry liveness *)
\* C33 (as stated): a SMOKE, STEAM, SPARK or FIRE cell that cannot move is
\* eventually removed or converted while the simulation keeps ticking
C33_ShortLivedExpire ==
  \A kind \in ShortLived : (typeA[ExpAt] = kind) ~> (typeA[ExpAt] # kind)

\* C33, what the code does: a short-lived cell whose chunk is inactive keeps
\* its type and its TTL, and its chunk stays inactive, in every step in which
\* no message arrives
C33_SleepingStays ==
  [][ (typeA[ExpAt] \in ShortLived /\ cActive[ChunkOf(ExpAt)] = 0 /\ sent' = sent) =>
        /\ typeA'[ExpAt] = typeA[ExpAt] /\ dataA'[ExpAt] = dataA[ExpAt]
        /\ cActive'[ChunkOf(ExpAt)] = 0 ]_vars

\* the chunk of the enclosed cell has gone to sleep with the TTL unspent
C33_AsleepUnexpired ==
  /\ typeA[ExpAt] \in ShortLived /\ cActive[ChunkOf(ExpAt)] = 0
  /\ dataA[ExpAt] > 0 /\ pc = "idle" /\ whole

\* a painted SPARK, whose TTL starts at 0, has expired
C33_SparkExpired == sent.posted /\ sent.kind = SPARK /\ tick > 0 /\ typeA[ExpAt] = AIR

(* ------------------------------------------------ the bounded stroke queue *)
\* A sixth environment for the input queue: the UI thread pauses the worker,
\* posts a burst of strokes longer than the queue, resumes, and posts a few
\* more while the queue drains at 1 to 3 strokes per tick.  Message n carries
\* its own tool state; consecutive strokes overlap, so that the order in which
\* they are applied shows in the grid.
QOver == 2
QMore == 4
QMaxTick == 4

QBurst == MAX_QUEUE + QOver

\* the n-th stroke message of the UI thread
QStrokeOf(n) ==
  [fx |-> n % 5, fy |-> 1, tx |-> (n % 5) + 2, ty |-> 1,
   st |-> [tool |-> IF n % 3 = 0 THEN "erase" ELSE "paint",
           material |-> IF n % 2 = 0 THEN WOOD ELSE STONE, brush |-> 0]]

\* posted: messages sent; accepted: the numbers of those the queue took, in
\* order of arrival; applied: how many of them have left the queue
QInit ==
  /\ Starts(initBuffers)
  /\ sent = [posted |-> 0, accepted |-> <<>>, applied |-> 0, pauses |-> 0]
  /\ other = NoOther

QPending == Len(sent.accepted) - sent.applied

QStroke ==
  /\ pc = "idle"
  /\ \/ tick = 0 /\ sent.posted < QBurst
     \/ tick = 1 /\ sent.posted >= QBurst /\ sent.posted < QBurst + QMore
  /\ \E n \in {sent.posted + 1} :
       /\ \E m \in {onStroke(Machine, QStrokeOf(n))} : Becomes(m)
       /\ sent' = [sent EXCEPT !.posted = n,
                               !.accepted = IF QPending < MAX_QUEUE THEN Append(@, n) ELSE @]
  /\ UNCHANGED other

QTogglePause ==
  /\ pc = "idle" /\ tick = 0
  /\ \/ ~paused /\ sent.posted = 0 /\ sent.pauses = 0
     \/ paused /\ sent.posted = QBurst
  /\ \E m \in {onTogglePause(Machine)} : Becomes(m)
  /\ sent' = [sent EXCEPT !.pauses = @ + 1]
  /\ UNCHANGED other

\* the frame loop calls step() whether or not the worker is paused; when it
\* runs, the reference queue loses as many strokes as the throttle allows
QStepBegin ==
  /\ pc = "idle"
  /\ \/ paused
     \/ tick < QMaxTick /\ sent.posted \in {0, 2, QBurst, QBurst + QMore}
  /\ \E dt \in (IF lastT = 0 THEN {0} ELSE DtSet \cup {24}) :
       /\ \E m \in {stepBegin(Machine, dt)} : Becomes(m)
       /\ sent' = [sent EXCEPT !.applied =
                     IF paused THEN @ ELSE @ + Min(strokeLimit(dt), QPending)]
  /\ UNCHANGED other

QNext ==
  \/ QStroke \/ QTogglePause \/ QStepBegin
  \/ StepPowder \/ StepGas \/ StepAir \/ StepFire \/ StepSleep \/ StepRender

SpecQueue == QInit /\ [][QNext]_vars

(* --------------------------------------------------- C36 bounded FIFO *)
\* the strokes that the reference queue still holds, oldest first
QWaiting == [k \in 1..QPending |-> QStrokeOf(sent.accepted[sent.applied + k])]

\* C36: the queue never holds more than 300 strokes; a stroke that arrives
\* when 300 are queued is discarded and leaves the queue as it was; the queue
\* holds exactly the accepted strokes that have not been applied, in arrival
\* order and with the tool state they arrived with; a tick applies the oldest
\* strokes in order and removes them; a step under pause applies none
C36_BoundedFifo ==
  [][ /\ Len(paintQueue) <= MAX_QUEUE /\ Len(paintQueue') <= MAX_QUEUE
      /\ paintQueue = QWaiting /\ paintQueue' = QWaiting'
      /\ sent'.posted # sent.posted =>
           /\ Len(paintQueue) = MAX_QUEUE => paintQueue' = paintQueue
           /\ Len(paintQueue) < MAX_QUEUE =>
                paintQueue' = Append(paintQueue, QStrokeOf(sent'.posted))
           /\ typeA' = typeA /\ dataA' = dataA
      /\ (pc = "idle" /\ pc' = "powder") =>
           \E k \in {Len(paintQueue) - Len(paintQueue')} :
             /\ ~paused /\ k >= 0 /\ k <= 3 /\ (paintQueue # <<>> => k > 0)
             /\ paintQueue' = SubSeq(paintQueue, k + 1, Len(paintQueue))
             /\ \E m \in {paintAll(Machine, SubSeq(paintQueue, 1, k))} :
                  typeA' = m.typeA /\ dataA' = m.dataA
      /\ (pc = "idle" /\ paused /\ sent'.posted = sent.posted) =>
           paintQueue' = paintQueue /\ typeA' = typeA /\ dataA' = dataA
      /\ pc # "idle" => paintQueue' = paintQueue
    ]_vars

\* a full queue has refused two strokes under pause, and after the resume the
\* first tick has applied its oldest strokes
C36_DrainedAfterFull ==
  /\ sent.posted = QBurst /\ Len(sent.accepted) = MAX_QUEUE
  /\ ~paused /\ tick = 1 /\ pc = "powder"
  /\ Len(paintQueue) = MAX_QUEUE - 3
  /\ typeA[idx(2, 1)] = WOOD /\ typeA[idx(3, 1)] = AIR

\* a stroke arrives at a queue of 300 during the pause
C36_RefusedWhenFull ==
  /\ paused /\ sent.posted = MAX_QUEUE + 1 /\ Len(paintQueue) = MAX_QUEUE

(* ------------------------------------------- C37 scheduler state invariant *)
\* C37: whenever the worker is between two ticks or two message handlers,
\* every chunk is active exactly when its sleep counter is at most 70, an
\* inactive chunk has the counter at exactly 71, and no counter exceeds 71
C37_SchedulerInvariant ==
  pc = "idle" =>
    \A ci \in Chunks :
      /\ (cActive[ci] = 1) = (cSleep[ci] <= SLEEP_LIMIT)
      /\ cActive[ci] = 0 => cSleep[ci] = SLEEP_LIMIT + 1
      /\ cActive[ci] \in {0, 1} /\ cSleep[ci] <= SLEEP_LIMIT + 1

\* a stroke has woken one chunk of a world that had gone to sleep, and the
\* tick after it is over: awake and sleeping chunks side by side
C37_WokenBesideSleeping ==
  /\ pc = "idle" /\ tick > 73 /\ sent.strokes > 0
  /\ \E ci \in Chunks : cActive[ci] = 0 /\ cSleep[ci] = SLEEP_LIMIT + 1
  /\ \E ci \in Chunks : cActive[ci] = 1 /\ cSleep[ci] <= 1

\* the clear handler has reset the counters of a sleeping world
C37_ClearedAsleep ==
  /\ pc = "idle" /\ sent.clears > 0 /\ tick = 73
  /\ \A ci \in Chunks : cActive[ci] = 1 /\ cSleep[ci] = 0

(* ------------------------------------------------ uniform pressure at rest *)
\* An environment for the air solver alone: a cleared world (no solid cell),
\* no turbulence, no ambient and no global wind, every velocity zero and the
\* same non-zero pressure in every coarse cell; the phases of updateAir run
\* one after the other.
CalmSmallMax == 400
CalmStep == 1500

CalmPressures ==
  { p \in (-P_MAX)..P_MAX :
      p # 0 /\ (p % CalmStep = 0 \/ Abs(p) <= CalmSmallMax \/ Abs(p) = P_MAX) }

CalmStart(p) ==
  [onClear(initBuffers) EXCEPT !.pField = [i \in AirCells |-> p], !.turb = 0,
                               !.tick = 2, !.pc = "air"]

Still == [i \in AirCells |-> 0]

CalmInit ==
  \E p \in CalmPressures :
    /\ Starts(CalmStart(p))
    /\ sent = [p |-> p]
    /\ other = [pc |-> "diffuse", vxNext |-> Still, vyNext |-> Still]

\* phase 1 and the buffer swap
CalmDiffuse ==
  /\ other.pc = "diffuse"
  /\ \E m \in {[Machine EXCEPT !.pField = airDiffuseP(pField)]} : Becomes(m)
  /\ other' = [other EXCEPT !.pc = "gradient"]
  /\ UNCHANGED sent

\* phase 2 over all coarse cells
CalmGradient ==
  /\ other.pc = "gradient"
  /\ \E m \in {airGradient(Machine, 0)} :
       /\ Becomes(m)
       /\ other' = [pc |-> "spread", vxNext |-> m.vxNext, vyNext |-> m.vyNext]
  /\ UNCHANGED sent

\* phase 3
CalmSpread ==
  /\ other.pc = "spread"
  /\ \E m \in {[Machine EXCEPT !.vxField = airDiffuseV(other.vxNext),
                               !.vyField = airDiffuseV(other.vyNext)]} : Becomes(m)
  /\ other' = [other EXCEPT !.pc = "done"]
  /\ UNCHANGED sent

CalmNext == CalmDiffuse \/ CalmGradient \/ CalmSpread

SpecCalm == CalmInit /\ [][CalmNext]_vars

(* ------------------------------------------ C38 wind from uniform pressure *)
CalmBefore ==
  /\ \A i \in AirCells : updateSolidField(Machine)[i] = 0
  /\ turb = 0 /\ ambVX = 0 /\ ambVY = 0 /\ globalVX = 0 /\ globalVY = 0

\* C38 (as stated): with the same non-zero pressure in every coarse cell, no
\* velocity, no wind, no turbulence and no solid cell, every velocity
\* component is still zero after the pressure-gradient phase
C38_NoSpuriousWind ==
  (other.pc = "spread" /\ CalmBefore) => (other.vxNext = Still /\ other.vyNext = Still)

\* the relaxed pressure "(p * relax) | 0" at the default damping
relaxed(p) == TDiv(p * (19640 + 7 * (windDampDefault - 80)), 20000)

\* velocity that the gradient phase gives a cell whose left neighbour has
\* been relaxed and whose right neighbour, or the cell itself at the right
\* border, has not
drift(p) == TDiv(975 * TDiv(42 * (relaxed(p) - p), 100), 1000)

\* C38, what the code does: phase 1 leaves the uniform pressure as it is;
\* phase 2 reads the left neighbour after its relaxation in the same sweep,
\* so every cell but the first of a row gets the horizontal velocity of a
\* pressure step from relaxed(p) to p
C38_WindFromRelaxed ==
  /\ other.pc = "gradient" => pField = [i \in AirCells |-> sent.p]
  /\ (other.pc = "spread" /\ CalmBefore) =>
       /\ pField = [i \in AirCells |-> relaxed(sent.p)]
       /\ \A i \in AirCells :
            /\ other.vxNext[i] = (IF i % aW = 0 THEN 0 ELSE drift(sent.p))
            /\ other.vyNext[i] = 0

\* the highest uniform pressure has left every cell right of the first with
\* a velocity to the left
C38_WindAtFullPressure ==
  /\ other.pc = "spread" /\ CalmBefore /\ sent.p = P_MAX
  /\ \A i \in AirCells \ {0} : other.vxNext[i] < 0

(* ------------------------------------------- the aux byte of firework sparks *)
\* An environment for fireworkExplode: a FIREWORK with a spent fuse in the
\* middle row of the cleared world, the generator at one of the states it
\* passes through from its initial seed.  The explosion is followed up to the
\* store of its first spark (i = 0), the rest of the loop, the shockwave and
\* the smoke left behind are not modelled; the spark then counts down with the
\* TTL rule of gasStep.
SparkCX == CHUNK - 1
SparkCY == H \div 2
SparkMaxDraws == 40

\* radius, numSparks, the angle draw and dist of the first iteration
explodeDraws(s) ==
  LET s1 == rndNext(s)
      s2 == rndNext(s1)
      s3 == rndNext(s2)
      s4 == rndNext(s3)
      radius == 6 + irandOf(s1, 4)
  IN [radius |-> radius, numSparks |-> 25 + irandOf(s2, 20), angle |-> s3,
      dist |-> 2 + irandOf(s4, radius), seed |-> s4]

\* Math.round(Math.sin(angle) * dist) for angle = rnd() * 0.3 (i = 0), from
\* a - a^3/6 <= sin a <= a and the upper 16 bits of the draw, in units of
\* 1/655360; both roundings are kept where the bounds straddle a half
sparkRows(s, dist) ==
  LET hi == 3 * dist * (s[1] + 1)
      lo == 3 * dist * s[1] - 2950 * dist
  IN { j \in 0..3 : (2 * j - 1) * 327680 <= hi /\ lo < (2 * j + 1) * 327680 }

\* "30 + irand(40) + (irand(4) << 6)": the value, its two parts, the seed after
sparkAux(s) ==
  LET s5 == rndNext(s)
      s6 == rndNext(s5)
      ttl == 30 + irandOf(s5, 40)
      colour == irandOf(s6, 4)
  IN [raw |-> ttl + 64 * colour, ttl |-> ttl, colour |-> colour, seed |-> s6]

NoSpark == [raw |-> 0, ttl |-> 0, colour |-> 0]

\* the first iteration of the spark loop; Math.cos(angle) * dist rounds to
\* dist for every angle below 0.3 and dist <= 10, dy is the rounded sine
fireworkFirstSpark(w, cx, cy, dy) ==
  LET e == explodeDraws(w.seed)
      nx == cx + e.dist
      ny == cy + dy
      w1 == partial([w EXCEPT !.seed = e.seed])
  IN IF ~inb(nx, ny) THEN [w |-> w1, r |-> FALSE, at |-> 0, v |-> NoSpark]
     ELSE IF w1.typeA[idx(nx, ny)] \notin {AIR, SMOKE, STEAM}
     THEN [w |-> w1, r |-> FALSE, at |-> 0, v |-> NoSpark]
     ELSE LET v == sparkAux(w1.seed)
          IN [w |-> markCellAndNeighbors(
                      [w1 EXCEPT !.seed = v.seed, !.typeA[idx(nx, ny)] = SPARK,
                                 !.dataA[idx(nx, ny)] = U8(v.raw)], nx, ny),
              r |-> TRUE, at |-> idx(nx, ny),
              v |-> [raw |-> v.raw, ttl |-> v.ttl, colour |-> v.colour]]

SparkStart(k) ==
  [onClear(initBuffers) EXCEPT !.seed = rndJump(SEED0, k),
                               !.typeA[idx(SparkCX, SparkCY)] = FIREWORK,
                               !.dataA[idx(SparkCX, SparkCY)] = 0]

SparkInit ==
  \E k \in 0..SparkMaxDraws :
    /\ Starts(SparkStart(k))
    /\ sent = [draws |-> k]
    /\ other = [pc |-> "fuse", at |-> 0, v |-> NoSpark, age |-> 0]

SparkExplode ==
  /\ other.pc = "fuse"
  /\ \E dy \in sparkRows(explodeDraws(seed).angle, explodeDraws(seed).dist) :
       \E a \in {fireworkFirstSpark(Machine, SparkCX, SparkCY, dy)} :
         /\ Becomes(a.w)
         /\ other' = [pc |-> IF a.r THEN "spark" ELSE "missed", at |-> a.at, v |-> a.v,
                      age |-> 0]
  /\ UNCHANGED sent

\* one gas pass over the spark: the TTL countdown on the whole byte
SparkCount ==
  /\ other.pc = "spark" /\ typeA[other.at] = SPARK
  /\ \E m \in {gasTTL(Machine, other.at % W, other.at \div W).w} : Becomes(m)
  /\ other' = [other EXCEPT !.age = @ + 1]
  /\ UNCHANGED sent

SparkNext == SparkExplode \/ SparkCount

SpecSpark == SparkInit /\ [][SparkNext]_vars

(* ---------------------------------------------------- C39 aux wrap-around *)
\* C39 (as stated): the value assigned to the aux byte of a firework spark
\* is in 0..255 before it is stored, so the byte holds the value itself, and
\* the TTL stays below the colour bits, which begin at bit 6
C39_NoAuxWrap ==
  (other.pc = "spark" /\ other.age = 0) =>
    /\ other.v.raw \in 0..255 /\ dataA[other.at] = other.v.raw
    /\ other.v.ttl < 64

\* C39, what the code does: the TTL of 30..69 and the colour shifted by 6 are
\* added; the byte keeps the sum modulo 256, the spark lives for as many gas
\* passes as the byte says, and the countdown itself never leaves 0..255
C39_SparkByte ==
  /\ (other.pc = "spark" /\ other.age = 0) =>
       /\ other.v.ttl \in 30..69 /\ other.v.colour \in 0..3
       /\ other.v.raw = other.v.ttl + 64 * other.v.colour
       /\ dataA[other.at] = other.v.raw % 256
  /\ (other.pc = "spark" /\ typeA[other.at] = SPARK) =>
       dataA[other.at] = (other.v.raw % 256) - other.age
  /\ (other.pc = "spark" /\ typeA[other.at] # SPARK) =>
       other.age = (other.v.raw % 256) + 1 /\ typeA[other.at] = AIR

\* a spark was assigned 261 (TTL 69, colour 3): the byte holds 5 and the
\* spark is gone after six gas passes
C39_SparkWrapped ==
  /\ other.pc = "spark" /\ other.v.raw = 261 /\ other.age = 6
  /\ typeA[other.at] = AIR

\* a spark whose TTL of 64 or more has run into the colour bits
C39_TtlInColourBits ==
  /\ other.pc = "spark" /\ other.age = 0 /\ other.v.raw <= 255
  /\ other.v.ttl >= 64 /\ (dataA[other.at] \div 64) # other.v.colour

====
